---- MODULE Spec2Model ----
(***************************************************************************)
(* Hybrid retrieval pipeline of all-in-rag-for-halter: rank fusion,        *)
(* deduplication, neighbour expansion under a token budget, the router     *)
(* call sites and the UI's call_router, the reconciliation of the answer   *)
(* pass with the judge pass, and RAGTool._run.  Every operator is          *)
(* translated from src/utils/hybrid_retrieve.py, src/agent/main.py,        *)
(* src/utils/router_chain.py, src/app.py and src/tools/rag_tool.py.        *)
(***************************************************************************)
EXTENDS Integers, Sequences, FiniteSets, TLC

(* ------------------------------ bounds --------------------------------- *)
MaxHits == 2      \* longest reranked list enumerated in full
MaxTokens == 3    \* max_tokens ranges over 0..MaxTokens
MaxFuseLen == 2   \* longest dense / sparse hit list
MaxItems == 3     \* longest list given to dedup_results
MaxSignalHits == 5 \* hits of a signals triple ranges over 0..MaxSignalHits
MaxRerank == 2    \* longest list of reranked scores given to the answer pass
MaxOutLines == 3  \* most lines of output given to RAGTool._run
MaxCandBlocks == 6 \* most distinct blocks among the candidates of rerank_bge
MaxSections == 3  \* most sections of the chunked markdown file
MaxChunks == 2    \* most chunks one section splits into
MaxHistory == 3   \* longest full_history
MaxStoreBlocks == 3 \* blocks of the corpus two concurrent queries read

(* --------------------------- small helpers ----------------------------- *)
Min(a, b) == IF a <= b THEN a ELSE b

Range(s) == {s[i] : i \in DOMAIN s}

\* s[:n] of Python for n >= 0
Take(s, n) == SubSeq(s, 1, Min(n, Len(s)))

SeqsUpTo(S, n) == UNION {[1..m -> S] : m \in 0..n}

(* ------------------------------ tokenizer ------------------------------ *)
\* A text is a sequence of characters.  The encoder merges the pair "a","b"
\* into one token and leaves every other character a token of its own, so
\* that the token length of a text differs from its character length.
RECURSIVE enc_encode(_)
enc_encode(text) ==
    IF text = <<>> THEN <<>>
    ELSE IF Len(text) >= 2 /\ text[1] = "a" /\ text[2] = "b"
         THEN <<SubSeq(text, 1, 2)>> \o enc_encode(SubSeq(text, 3, Len(text)))
         ELSE <<SubSeq(text, 1, 1)>> \o enc_encode(Tail(text))

RECURSIVE enc_decode(_)
enc_decode(tokens) ==
    IF tokens = <<>> THEN <<>> ELSE Head(tokens) \o enc_decode(Tail(tokens))

token_len(text) == Len(enc_encode(text))

(* --------------------------- corpus and hits --------------------------- *)
Sources == {"manual.md"}
BlockIdxs == {0, 1}
\* with two blocks a radius of 1 already reaches every block of a source
Radii == {0, 1}
Sections == {"Cleaning", "Descaling"}
EmptyText == <<>>
ShortText == <<"a", "b">>                \* 1 token
LongText == <<"b", "a", "b", "a">>       \* 3 tokens
ChunkTexts == {EmptyText, ShortText, LongText}
HitTexts == {ShortText, LongText}

Keys == Sources \X BlockIdxs

\* load_chunk_map: the entry under (source, block_idx) carries the chunk_id
\* "{source}:{block_idx}" of its own key.
ChunkMaps ==
    UNION {{f \in [D -> [chunk_id : Keys, section_path : Sections, text : ChunkTexts]] :
               \A key \in D : f[key].chunk_id = key} : D \in SUBSET Keys}

\* A reranked hit: the metadata fields the assembler reads, and the text.
Hits == [source : Sources, block_idx : BlockIdxs,
         section_path : Sections, doc : HitTexts]

None == [none |-> TRUE]

(* ------------------------------- state --------------------------------- *)
VARIABLES
    top_hits,       \* reranked, the hit list given to collect_with_neighbors
    chunk_map,      \* (source, block_idx) -> chunk
    radius,
    max_tokens,
    pc,             \* position in collect_with_neighbors / main
    hi,             \* index of the current hit (outer loop)
    nb,             \* current neighbour block index (inner loop)
    seen,
    collected,
    total_tokens,
    origin,         \* history: per emitted chunk, the hit index and whether it was truncated
    total,          \* main's fallback counter
    \* rrf_fuse
    dense_hits,
    sparse_hits,
    top_n,
    fpc,            \* position in rrf_fuse
    fl,             \* 1: dense_hits, 2: sparse_hits (outer loop)
    rank,           \* 1-based rank in the current list (inner loop)
    pool,           \* the dict, as its entries in insertion order
    fused,          \* the returned list
    \* dedup_results
    items,
    dpc,            \* position in dedup_results
    di,             \* index of the current item
    dseen,
    uniq,
    \* the router call sites
    site,           \* "agent": decide_action, "router_chain": router_chain main
    top1,           \* scores in hundredths
    avg5,
    hits,
    rpc,            \* position in the router
    decision,       \* what the call site returns (agent) or prints (router_chain)
    llm_calls,      \* number of chat-model calls issued
    reply,          \* history: the chat model's reply, as its lines
    returned,       \* what call_router returns to the UI
    \* main: the answer pass, the judge pass and their reconciliation
    reranked,       \* the scores of the reranked hits, in hundredths
    chunk_ids,
    answer_text,    \* resp.content
    judge_text,     \* judge_resp.content
    answer_pass,    \* can_answer, confidence, answer, reason, sources after the first try
    final_result,
    qpc,            \* position in main's LLM block
    \* RAGTool._run
    tpc,            \* position in _run
    stdout,         \* rag_process.stdout, as its lines
    tool_result,     \* the object whose JSON text _run returns
    \* main: rerank_bge, dedup_results and the retrieval scores
    kpc,            \* position in main's rerank block
    candidates,     \* fused, the list given to rerank_bge
    top_rerank,     \* args.top_rerank
    rr_hits,        \* main's variable reranked
    retrieval_scores,\* top1, avg_top5 and hits as final_result carries them
    \* app.py main: the pre-retrieval that feeds the router
    ppc,            \* position in the pre-retrieval block
    res,            \* what collection.query returned: distances and section paths
    pre_error,      \* history: the service whose call raised, if any
    warned,         \* st.warning was shown
    retrieval_signals,\* the signals handed to call_router
    \* app.py main: acting on the router decision
    cpc,            \* position in the chat flow
    chat_action,    \* router_decision.get("action", "escalate")
    rag_result,     \* json.loads of what rag_tool._run returned
    response_content,\* what the assistant message shows
    response_metadata,\* action and error of the assistant message
    escalate_calls,  \* number of escalate_tool._run calls
    \* router_chain: parse_signals and its use in main
    spc,            \* position in parse_signals / main
    raw,            \* the argument of parse_signals
    has_override,   \* one of --top1, --avg-top5, --hits, --sections is given
    cands,          \* candidates
    cand_i,         \* index of the candidate being tried
    parsed,         \* what parse_signals returns
    strategy,        \* history: the step that produced the return value
    \* chunker, load_chunk_map and sparse_search
    chpc,           \* position in the chunker and the loading of its output
    section_sizes,  \* per section of the markdown file, the number of chunks it splits into
    sec_i,          \* index of the section being chunked
    docs,           \* the chunks written to chunks.jsonl, in order
    mp,             \* the chunk map, as its (key, chunk) entries
    sparse_out,      \* the hits sparse_search returns
    \* MemoryManager
    managers,       \* the MemoryManager objects: window_size, windowed_messages, and the list full_history refers to
    lists,           \* the list objects that serve as full_history
    \* two RAGTool._run calls in flight at once
    store,          \* the corpus both processes read: per block, its topic
    queries,        \* the query of each call
    cq_pos,         \* the position of each hybrid_retrieve.py process
    mem,            \* the variables of main, per address space
    outputs         \* rag_process.stdout of each call: the final result printed

asmVars == <<top_hits, chunk_map, radius, max_tokens, pc, hi, nb, seen,
             collected, total_tokens, origin, total>>

fuseVars == <<dense_hits, sparse_hits, top_n, fpc, fl, rank, pool, fused>>

dedupVars == <<items, dpc, di, dseen, uniq>>

routerVars == <<site, top1, avg5, hits, rpc, decision, llm_calls, reply,
                returned>>

recVars == <<reranked, chunk_ids, answer_text, judge_text, answer_pass,
             final_result, qpc>>

toolVars == <<tpc, stdout, tool_result>>

rerankVars == <<kpc, candidates, top_rerank, rr_hits, retrieval_scores>>

preVars == <<ppc, res, pre_error, warned, retrieval_signals>>

chatVars == <<cpc, chat_action, rag_result, response_content, response_metadata, escalate_calls>>

parseVars == <<spc, raw, has_override, cands, cand_i, parsed, strategy>>

chunkVars == <<chpc, section_sizes, sec_i, docs, mp, sparse_out>>

memVars == <<managers, lists>>

concVars == <<store, queries, cq_pos, mem, outputs>>

vars == <<asmVars, fuseVars, dedupVars, routerVars, recVars, toolVars,
          rerankVars, preVars, chatVars, parseVars, chunkVars, memVars,
          concVars>>

notAsm == <<fuseVars, dedupVars, routerVars, recVars, toolVars, rerankVars,
            preVars, chatVars, parseVars, chunkVars, memVars, concVars>>
notFuse == <<asmVars, dedupVars, routerVars, recVars, toolVars, rerankVars,
             preVars, chatVars, parseVars, chunkVars, memVars, concVars>>
notDedup == <<asmVars, fuseVars, routerVars, recVars, toolVars, rerankVars,
              preVars, chatVars, parseVars, chunkVars, memVars, concVars>>
notRouter == <<asmVars, fuseVars, dedupVars, recVars, toolVars, rerankVars,
               preVars, chatVars, parseVars, chunkVars, memVars, concVars>>
notRec == <<asmVars, fuseVars, dedupVars, routerVars, toolVars, rerankVars,
            preVars, chatVars, parseVars, chunkVars, memVars, concVars>>
notTool == <<asmVars, fuseVars, dedupVars, routerVars, recVars, rerankVars,
             preVars, chatVars, parseVars, chunkVars, memVars, concVars>>
notRerank == <<asmVars, fuseVars, dedupVars, routerVars, recVars, toolVars,
               preVars, chatVars, parseVars, chunkVars, memVars, concVars>>
notPreRetrieve == <<asmVars, fuseVars, dedupVars, routerVars, recVars,
                    toolVars, rerankVars, chatVars, parseVars, chunkVars,
                    memVars, concVars>>
notChat == <<asmVars, fuseVars, dedupVars, routerVars, recVars, toolVars,
             rerankVars, preVars, parseVars, chunkVars, memVars, concVars>>
notParse == <<asmVars, fuseVars, dedupVars, routerVars, recVars, toolVars,
              rerankVars, preVars, chatVars, chunkVars, memVars, concVars>>
notChunk == <<asmVars, fuseVars, dedupVars, routerVars, recVars, toolVars,
              rerankVars, preVars, chatVars, parseVars, memVars, concVars>>
notMemory == <<asmVars, fuseVars, dedupVars, routerVars, recVars, toolVars,
               rerankVars, preVars, chatVars, parseVars, chunkVars, concVars>>
notConcurrent == <<asmVars, fuseVars, dedupVars, routerVars, recVars,
                   toolVars, rerankVars, preVars, chatVars, parseVars,
                   chunkVars, memVars>>

\* the state of a component that is not running
AsmIdle ==
    /\ top_hits = <<>> /\ chunk_map = <<>> /\ radius = 0 /\ max_tokens = 0
    /\ pc = "idle" /\ hi = 1 /\ nb = 0 /\ seen = {} /\ collected = <<>>
    /\ total_tokens = 0 /\ origin = <<>> /\ total = 0

FuseIdle ==
    /\ dense_hits = <<>> /\ sparse_hits = <<>> /\ top_n = 0 /\ fpc = "idle"
    /\ fl = 1 /\ rank = 1 /\ pool = <<>> /\ fused = <<>>

DedupIdle ==
    /\ items = <<>> /\ dpc = "idle" /\ di = 1 /\ dseen = {} /\ uniq = <<>>

RouterIdle ==
    /\ site = "agent" /\ top1 = 0 /\ avg5 = 0 /\ hits = 0 /\ rpc = "idle"
    /\ decision = None /\ llm_calls = 0 /\ reply = <<>> /\ returned = None

RecIdle ==
    /\ reranked = <<>> /\ chunk_ids = <<>> /\ answer_text = None
    /\ judge_text = None /\ answer_pass = None /\ final_result = None
    /\ qpc = "idle"

ToolIdle ==
    /\ tpc = "idle" /\ stdout = <<>> /\ tool_result = None

RerankIdle ==
    /\ kpc = "idle" /\ candidates = <<>> /\ top_rerank = 0 /\ rr_hits = <<>>
    /\ retrieval_scores = None

PreRetrieveIdle ==
    /\ ppc = "idle" /\ res = None /\ pre_error = None /\ warned = FALSE
    /\ retrieval_signals = None

ChatIdle ==
    /\ cpc = "idle" /\ chat_action = "escalate" /\ rag_result = None
    /\ response_content = "" /\ response_metadata = None
    /\ escalate_calls = 0

ParseIdle ==
    /\ spc = "idle" /\ raw = None /\ has_override = FALSE /\ cands = <<>>
    /\ cand_i = 1 /\ parsed = None /\ strategy = "none"

ChunkIdle ==
    /\ chpc = "idle" /\ section_sizes = <<>> /\ sec_i = 1 /\ docs = <<>>
    /\ mp = {} /\ sparse_out = <<>>

MemoryIdle ==
    /\ managers = <<>> /\ lists = <<>>

ConcurrentIdle ==
    /\ store = <<>> /\ queries = <<>> /\ cq_pos = <<>> /\ mem = <<>>
    /\ outputs = <<>>

(* ----------------------- collect_with_neighbors ------------------------ *)
chunk_map_get(key) ==
    IF key \in DOMAIN chunk_map THEN chunk_map[key] ELSE None

same_section_any(chunk, sec) == TRUE

same_section(chunk, sec) == chunk.section_path = sec

remaining_tokens_plus_one == max_tokens - total_tokens + 1

remaining_tokens == max_tokens - total_tokens

truncate_tokens(text, n) == enc_decode(Take(enc_encode(text), n))

cur_hit == top_hits[hi]
cur_key == <<cur_hit.source, nb>>

\* end of one pass of the inner loop body: the next neighbour, the next
\* hit's first neighbour, or the return after the last hit
Advance ==
    IF nb < cur_hit.block_idx + radius
    THEN /\ nb' = nb + 1
         /\ UNCHANGED <<pc, hi>>
    ELSE /\ hi' = hi + 1
         /\ IF hi + 1 > Len(top_hits)
            THEN pc' = "returned" /\ UNCHANGED nb
            ELSE nb' = top_hits[hi + 1].block_idx - radius /\ UNCHANGED pc

\* entry: for _, _, meta, _doc in top_hits (return collected when empty)
ForHit ==
    /\ pc = "for_hit"
    /\ IF hi > Len(top_hits)
       THEN /\ pc' = "returned"
            /\ UNCHANGED nb
       ELSE /\ pc' = "for_nb"
            /\ nb' = cur_hit.block_idx - radius
    /\ UNCHANGED <<notAsm, top_hits, chunk_map, radius, max_tokens, hi, seen,
                   collected, total_tokens, origin, total>>

\* if key in seen: continue
SkipSeen ==
    /\ pc = "for_nb"
    /\ cur_key \in seen
    /\ Advance
    /\ UNCHANGED <<notAsm, top_hits, chunk_map, radius, max_tokens, seen,
                   collected, total_tokens, origin, total>>

\* if not chunk: continue
SkipMissing ==
    /\ pc = "for_nb"
    /\ cur_key \notin seen
    /\ chunk_map_get(cur_key) = None
    /\ Advance
    /\ UNCHANGED <<notAsm, top_hits, chunk_map, radius, max_tokens, seen,
                   collected, total_tokens, origin, total>>

\* if chunk.get("section_path", "") != sec: continue
SkipSection ==
    /\ pc = "for_nb"
    /\ cur_key \notin seen
    /\ chunk_map_get(cur_key) # None
    /\ ~same_section(chunk_map_get(cur_key), cur_hit.section_path)
    /\ Advance
    /\ UNCHANGED <<notAsm, top_hits, chunk_map, radius, max_tokens, seen,
                   collected, total_tokens, origin, total>>

\* if not text: continue
SkipEmpty ==
    /\ pc = "for_nb"
    /\ cur_key \notin seen
    /\ chunk_map_get(cur_key) # None
    /\ same_section(chunk_map_get(cur_key), cur_hit.section_path)
    /\ chunk_map_get(cur_key).text = EmptyText
    /\ Advance
    /\ UNCHANGED <<notAsm, top_hits, chunk_map, radius, max_tokens, seen,
                   collected, total_tokens, origin, total>>

Emittable ==
    /\ pc = "for_nb"
    /\ cur_key \notin seen
    /\ chunk_map_get(cur_key) # None
    /\ same_section(chunk_map_get(cur_key), cur_hit.section_path)
    /\ chunk_map_get(cur_key).text # EmptyText

\* if total_tokens + token_len > max_tokens: truncate to the remaining
\* budget (when positive) and return
TruncateAndReturn ==
    /\ Emittable
    /\ LET chunk == chunk_map_get(cur_key) IN
       /\ total_tokens + token_len(chunk.text) > max_tokens
       /\ IF remaining_tokens > 0
          THEN /\ collected' = Append(collected,
                     [chunk_id |-> chunk.chunk_id,
                      text |-> truncate_tokens(chunk.text, remaining_tokens)])
               /\ origin' = Append(origin, [hit |-> hi, truncated |-> TRUE])
          ELSE UNCHANGED <<collected, origin>>
    /\ pc' = "returned"
    /\ UNCHANGED <<notAsm, top_hits, chunk_map, radius, max_tokens, hi, nb, seen,
                   total_tokens, total>>

\* collected.append(...); total_tokens += token_len; seen.add(key)
EmitFull ==
    /\ Emittable
    /\ LET chunk == chunk_map_get(cur_key) IN
       /\ total_tokens + token_len(chunk.text) <= max_tokens
       /\ collected' = Append(collected,
              [chunk_id |-> chunk.chunk_id, text |-> chunk.text])
       /\ origin' = Append(origin, [hit |-> hi, truncated |-> FALSE])
       /\ total_tokens' = total_tokens + token_len(chunk.text)
    /\ seen' = seen \cup {cur_key}
    /\ Advance
    /\ UNCHANGED <<notAsm, top_hits, chunk_map, radius, max_tokens, total>>

(* ------------------------- main: the fallback -------------------------- *)
never_empty(list) == FALSE

is_empty(list) == list = <<>>

\* if not collected: ... (the context is handed on otherwise)
MainAfterCollect ==
    /\ pc = "returned"
    /\ IF is_empty(collected)
       THEN pc' = "fallback" /\ hi' = 1
       ELSE pc' = "context" /\ UNCHANGED hi
    /\ total' = 0
    /\ UNCHANGED <<notAsm, top_hits, chunk_map, radius, max_tokens, nb, seen,
                   collected, total_tokens, origin>>

\* for _id, _sc, meta, doc in reranked: ... if total >= max: break
FallbackStep ==
    /\ pc = "fallback"
    /\ IF hi > Len(top_hits) \/ total >= max_tokens
       THEN /\ pc' = "context"
            /\ UNCHANGED <<hi, collected, origin, total>>
       ELSE LET tokens == enc_encode(cur_hit.doc)
                remain == max_tokens - total
                part   == enc_decode(Take(tokens, remain))
                cid    == <<cur_hit.source, cur_hit.block_idx>>
            IN /\ collected' = Append(collected, [chunk_id |-> cid, text |-> part])
               /\ origin' = Append(origin,
                      [hit |-> hi, truncated |-> Len(tokens) > remain])
               /\ total' = total + Len(Take(tokens, remain))
               /\ hi' = hi + 1
               /\ UNCHANGED pc
    /\ UNCHANGED <<notAsm, top_hits, chunk_map, radius, max_tokens, nb, seen,
                   total_tokens>>

(* --------------------------- specification ----------------------------- *)
\* Six-hit reranked lists (the default --top-rerank): a free first hit
\* followed by five fixed hits.
FillerHit(i) ==
    [source |-> "manual.md", block_idx |-> i % 2,
     section_path |-> "Cleaning", doc |-> ShortText]

SixHitLists == {<<h>> \o [i \in 1..5 |-> FillerHit(i)] : h \in Hits}

HitLists == SeqsUpTo(Hits, MaxHits) \cup SixHitLists

InitAssemble ==
    /\ top_hits \in HitLists
    /\ chunk_map \in ChunkMaps
    /\ radius \in Radii
    /\ max_tokens \in 0..MaxTokens
    /\ pc = "for_hit"
    /\ hi = 1
    /\ nb = 0
    /\ seen = {}
    /\ collected = <<>>
    /\ total_tokens = 0
    /\ origin = <<>>
    /\ total = 0
    /\ FuseIdle
    /\ DedupIdle
    /\ RouterIdle
    /\ RecIdle
    /\ ToolIdle
    /\ RerankIdle
    /\ PreRetrieveIdle
    /\ ChatIdle
    /\ ParseIdle
    /\ ChunkIdle
    /\ MemoryIdle
    /\ ConcurrentIdle

NextAssemble ==
    \/ ForHit
    \/ SkipSeen
    \/ SkipMissing
    \/ SkipSection
    \/ SkipEmpty
    \/ TruncateAndReturn
    \/ EmitFull
    \/ MainAfterCollect
    \/ FallbackStep

SpecAssemble == InitAssemble /\ [][NextAssemble]_vars


(* ------------------------------ rrf_fuse ------------------------------- *)
k_rrf == 60

DocIds == {"A", "B", "C"}
\* with three ids a top_n above 3 cuts nothing
TopNs == {0, 1, 2, 3}

\* A retrieval hit as rrf_fuse reads it: id, metadata and text (the channel
\* score is not read).  The same id can come with two different payloads.
FuseHits ==
    {[doc_id |-> i, meta |-> "meta1", doc |-> "text1"] : i \in DocIds}
    \cup {[doc_id |-> i, meta |-> "meta2", doc |-> "text2"] : i \in DocIds}

\* Scores are fractions over the common denominator (k+1)(k+2)...(k+MaxFuseLen).
RECURSIVE Denom(_)
Denom(n) == IF n = 0 THEN 1 ELSE (k_rrf + n) * Denom(n - 1)

contrib_zero_based(r) == Denom(MaxFuseLen) \div (k_rrf + r - 1)

\* contrib = 1.0 / (k + rank)
contrib(r) == Denom(MaxFuseLen) \div (k_rrf + r)

cur_list == IF fl = 1 THEN dense_hits ELSE sparse_hits

pool_index(id) == {i \in 1..Len(pool) : pool[i].doc_id = id}

accumulate_keep_first(entry, c, hit) ==
    [entry EXCEPT !.total = @ + c]

\* pool[doc_id] = (pool[doc_id][0] + contrib, meta, doc)
accumulate(entry, c, hit) ==
    [entry EXCEPT !.total = @ + c, !.meta = hit.meta, !.doc = hit.doc]

RECURSIVE insert_desc_unstable(_, _)
insert_desc_unstable(s, e) ==
    IF s = <<>> THEN <<e>>
    ELSE IF Head(s).total > e.total
         THEN <<Head(s)>> \o insert_desc_unstable(Tail(s), e)
         ELSE <<e>> \o s

\* sorted(..., key=total, reverse=True) is stable: an entry goes behind
\* every earlier entry whose total is at least its own.
RECURSIVE insert_desc(_, _)
insert_desc(s, e) ==
    IF s = <<>> THEN <<e>>
    ELSE IF Head(s).total >= e.total
         THEN <<Head(s)>> \o insert_desc(Tail(s), e)
         ELSE <<e>> \o s

RECURSIVE sorted_desc(_)
sorted_desc(s) ==
    IF s = <<>> THEN <<>>
    ELSE insert_desc(sorted_desc(SubSeq(s, 1, Len(s) - 1)), s[Len(s)])

\* for hits in (dense_hits, sparse_hits): the current list is exhausted
FuseNextList ==
    /\ fpc = "loop"
    /\ rank > Len(cur_list)
    /\ IF fl = 1
       THEN fl' = 2 /\ rank' = 1 /\ UNCHANGED fpc
       ELSE fpc' = "sort" /\ UNCHANGED <<fl, rank>>
    /\ UNCHANGED <<notFuse, dense_hits, sparse_hits, top_n, pool, fused>>

\* if doc_id not in pool: pool[doc_id] = (contrib, meta, doc)
FuseInsert ==
    /\ fpc = "loop"
    /\ rank <= Len(cur_list)
    /\ LET hit == cur_list[rank] IN
       /\ pool_index(hit.doc_id) = {}
       /\ pool' = Append(pool, [doc_id |-> hit.doc_id, total |-> contrib(rank),
                                meta |-> hit.meta, doc |-> hit.doc])
    /\ rank' = rank + 1
    /\ UNCHANGED <<notFuse, dense_hits, sparse_hits, top_n, fpc, fl, fused>>

\* else: pool[doc_id] = (pool[doc_id][0] + contrib, meta, doc)
FuseAccumulate ==
    /\ fpc = "loop"
    /\ rank <= Len(cur_list)
    /\ LET hit == cur_list[rank] IN
       /\ pool_index(hit.doc_id) # {}
       /\ pool' = [i \in 1..Len(pool) |->
                     IF pool[i].doc_id = hit.doc_id
                     THEN accumulate(pool[i], contrib(rank), hit)
                     ELSE pool[i]]
    /\ rank' = rank + 1
    /\ UNCHANGED <<notFuse, dense_hits, sparse_hits, top_n, fpc, fl, fused>>

\* fused = sorted(pool.items(), ...); return [... for ... in fused[:top_n]]
FuseSortReturn ==
    /\ fpc = "sort"
    /\ fused' = Take(sorted_desc(pool), top_n)
    /\ fpc' = "done"
    /\ UNCHANGED <<notFuse, dense_hits, sparse_hits, top_n, fl, rank, pool>>

InitFuse ==
    /\ dense_hits \in SeqsUpTo(FuseHits, MaxFuseLen)
    /\ sparse_hits \in SeqsUpTo(FuseHits, MaxFuseLen)
    /\ top_n \in TopNs
    /\ fpc = "loop"
    /\ fl = 1
    /\ rank = 1
    /\ pool = <<>>
    /\ fused = <<>>
    /\ AsmIdle
    /\ DedupIdle
    /\ RouterIdle
    /\ RecIdle
    /\ ToolIdle
    /\ RerankIdle
    /\ PreRetrieveIdle
    /\ ChatIdle
    /\ ParseIdle
    /\ ChunkIdle
    /\ MemoryIdle
    /\ ConcurrentIdle

NextFuse ==
    \/ FuseNextList
    \/ FuseInsert
    \/ FuseAccumulate
    \/ FuseSortReturn

SpecFuse == InitFuse /\ [][NextFuse]_vars

(* ---------------------------- dedup_results ---------------------------- *)
\* The metadata of an item: a mapping in which "source" and "block_idx" may
\* each be absent.
DedupSources == {"", "manual.md"}
DedupBlocks == {-1, 0}

Metas ==
    {[block_type |-> "text", source |-> s, block_idx |-> b] :
        s \in DedupSources, b \in DedupBlocks}
    \cup {[block_type |-> "text", source |-> s] : s \in DedupSources}
    \cup {[block_type |-> "text", block_idx |-> b] : b \in DedupBlocks}
    \cup {[block_type |-> "text"]}

Items == [doc_id : {"A", "B"}, meta : Metas]

\* meta.get(field, default)
meta_get(meta, field, default) ==
    IF field \in DOMAIN meta THEN meta[field] ELSE default

dedup_key_source_only(item) ==
    <<meta_get(item.meta, "source", ""), -1>>

\* key = (meta.get("source", ""), meta.get("block_idx", -1))
dedup_key(item) ==
    <<meta_get(item.meta, "source", ""), meta_get(item.meta, "block_idx", -1)>>

\* if key in seen: continue
DedupSkip ==
    /\ dpc = "loop"
    /\ di <= Len(items)
    /\ dedup_key(items[di]) \in dseen
    /\ di' = di + 1
    /\ UNCHANGED <<notDedup, items, dpc, dseen, uniq>>

\* seen.add(key); uniq.append(...)
DedupKeep ==
    /\ dpc = "loop"
    /\ di <= Len(items)
    /\ dedup_key(items[di]) \notin dseen
    /\ dseen' = dseen \cup {dedup_key(items[di])}
    /\ uniq' = Append(uniq, items[di])
    /\ di' = di + 1
    /\ UNCHANGED <<notDedup, items, dpc>>

\* return uniq
DedupReturn ==
    /\ dpc = "loop"
    /\ di > Len(items)
    /\ dpc' = "done"
    /\ UNCHANGED <<notDedup, items, di, dseen, uniq>>

InitDedup ==
    /\ items \in SeqsUpTo(Items, MaxItems)
    /\ dpc = "loop"
    /\ di = 1
    /\ dseen = {}
    /\ uniq = <<>>
    /\ AsmIdle
    /\ FuseIdle
    /\ RouterIdle
    /\ RecIdle
    /\ ToolIdle
    /\ RerankIdle
    /\ PreRetrieveIdle
    /\ ChatIdle
    /\ ParseIdle
    /\ ChunkIdle
    /\ MemoryIdle
    /\ ConcurrentIdle

NextDedup ==
    \/ DedupSkip
    \/ DedupKeep
    \/ DedupReturn

SpecDedup == InitDedup /\ [][NextDedup]_vars

(* ------------------------ the router call sites ------------------------ *)
\* Scores are in hundredths: 0.7 is 70.
agent_high_top1 == 70
agent_high_avg5 == 50
agent_high_hits == 3
agent_low_top1 == 35
agent_low_avg5 == 30
agent_low_hits == 3
chain_high_top1 == 50
chain_high_avg5 == 35
chain_high_hits == 3
chain_low_top1 == 15
chain_low_avg5 == 10
chain_low_hits == 2

Sites == {"agent", "router_chain"}
Actions == {"rag", "escalate", "db", "api"}

high_band_any(s, t, a, h) ==
    IF s = "agent"
    THEN t >= agent_high_top1 \/ a >= agent_high_avg5 \/ h >= agent_high_hits
    ELSE t >= chain_high_top1 \/ a >= chain_high_avg5 \/ h >= chain_high_hits

\* if top1 >= ... and avg5 >= ... and hits >= ...
high_band(s, t, a, h) ==
    IF s = "agent"
    THEN t >= agent_high_top1 /\ a >= agent_high_avg5 /\ h >= agent_high_hits
    ELSE t >= chain_high_top1 /\ a >= chain_high_avg5 /\ h >= chain_high_hits

low_band_above_high(s, t, a, h) ==
    IF s = "agent"
    THEN t < agent_high_top1 + 5 \/ a < agent_low_avg5 \/ h < agent_low_hits
    ELSE t < chain_high_top1 + 5 \/ a < chain_low_avg5 \/ h < chain_low_hits

\* if top1 < ... or avg5 < ... or hits < ...
low_band(s, t, a, h) ==
    IF s = "agent"
    THEN t < agent_low_top1 \/ a < agent_low_avg5 \/ h < agent_low_hits
    ELSE t < chain_low_top1 \/ a < chain_low_avg5 \/ h < chain_low_hits

high_decision(s) ==
    [action |-> "rag", confidence |-> 90,
     reason |-> IF s = "agent" THEN "High retrieval scores"
                ELSE "High retrieval scores (relaxed threshold)"]

low_decision_rag(s) == high_decision(s)

low_decision(s) ==
    [action |-> "escalate", confidence |-> 90,
     reason |-> IF s = "agent" THEN "Low retrieval scores"
                ELSE "Extremely low retrieval scores"]

\* A line of the chat model's reply, by what the two parsers see in it:
\*   object     {"action": "...", "confidence": 0.85, "reason": "..."}
\*   no_action  a one-line JSON object without the word "action"
\*   nested     a one-line JSON object with "action" below the top level
\*   broken     starts with { and mentions "action", but is no JSON
\*   value      a JSON string, number or list
\*   text       anything else
\*   open, member, close: the three lines of an indented JSON object
ReplyActions == Actions \cup {"unknown"}

object_line(a) ==
    [kind |-> "object", action |-> a, confidence |-> 85, reason |-> "intent"]

ReplyLines ==
    {object_line(a) : a \in ReplyActions}
    \cup {[kind |-> k] : k \in {"no_action", "nested", "broken", "value", "text"}}

indented(a) ==
    <<[kind |-> "open"], [kind |-> "member", action |-> a], [kind |-> "close"]>>

\* What the chat model can reply: one line, a line after or before a line
\* of prose, or an indented object.
Replies ==
    {<<l>> : l \in ReplyLines}
    \cup {<<[kind |-> "text"], l>> : l \in ReplyLines}
    \cup {<<l, [kind |-> "text"]>> : l \in ReplyLines}
    \cup {indented(a) : a \in ReplyActions}

\* json.loads of one line
line_loads(line) ==
    CASE line.kind = "object" ->
            [ok |-> TRUE,
             value |-> [action |-> line.action, confidence |-> line.confidence,
                        reason |-> line.reason]]
      [] line.kind = "no_action" -> [ok |-> TRUE, value |-> [route |-> "rag"]]
      [] line.kind = "nested" ->
            [ok |-> TRUE, value |-> [result |-> [action |-> "rag"]]]
      [] line.kind = "debug" -> [ok |-> TRUE, value |-> [debug_signals |-> TRUE]]
      [] line.kind = "value" -> [ok |-> TRUE, value |-> [json_value |-> "rag"]]
      [] OTHER -> [ok |-> FALSE]

\* json.loads of the whole reply
json_loads(lines) ==
    IF Len(lines) = 1
    THEN line_loads(lines[1])
    ELSE IF /\ Len(lines) = 3
            /\ lines[1].kind = "open"
            /\ lines[2].kind = "member"
            /\ lines[3].kind = "close"
         THEN [ok |-> TRUE,
               value |-> [action |-> lines[2].action, confidence |-> 85,
                          reason |-> "intent"]]
         ELSE [ok |-> FALSE]

\* decide_action: except Exception: return {...}
agent_fallback ==
    [action |-> "escalate", confidence |-> 50, reason |-> "Router parse failure"]

\* decide_action: json.loads(resp.content), or the fallback on any exception
agent_parse(content) ==
    IF json_loads(content).ok THEN json_loads(content).value ELSE agent_fallback

\* router_chain main's standard output: the debug_signals line, then the
\* hard-rule result (json.dumps) or the reply as the model wrote it
stdout_lines(d) ==
    IF "printed" \in DOMAIN d
    THEN <<[kind |-> "debug"]>> \o d.printed
    ELSE <<[kind |-> "debug"],
           [kind |-> "object", action |-> d.action, confidence |-> d.confidence,
            reason |-> d.reason]>>

\* line.startswith('{')
starts_with_brace(line) ==
    line.kind \in {"object", "no_action", "nested", "broken", "open", "debug"}

\* '"action"' in line
mentions_action(line) ==
    line.kind \in {"object", "nested", "broken", "member"}

ui_fallback_zero ==
    [action |-> "escalate", confidence |-> 0, reason |-> "Could not parse router output"]

\* call_router: the fallback after the loop
ui_fallback ==
    [action |-> "escalate", confidence |-> 50, reason |-> "Could not parse router output"]

\* call_router: for line in reversed(lines), from line i down
RECURSIVE scan_lines(_, _)
scan_lines(lines, i) ==
    IF i = 0
    THEN ui_fallback
    ELSE IF /\ starts_with_brace(lines[i])
            /\ mentions_action(lines[i])
            /\ line_loads(lines[i]).ok
            /\ "action" \in DOMAIN line_loads(lines[i]).value
         THEN line_loads(lines[i]).value
         ELSE scan_lines(lines, i - 1)

\* the first hard rule
HardRuleHigh ==
    /\ rpc = "start"
    /\ high_band(site, top1, avg5, hits)
    /\ decision' = high_decision(site)
    /\ rpc' = "done"
    /\ UNCHANGED <<notRouter, site, top1, avg5, hits, llm_calls, reply, returned>>

\* the second hard rule
HardRuleLow ==
    /\ rpc = "start"
    /\ ~high_band(site, top1, avg5, hits)
    /\ low_band(site, top1, avg5, hits)
    /\ decision' = low_decision(site)
    /\ rpc' = "done"
    /\ UNCHANGED <<notRouter, site, top1, avg5, hits, llm_calls, reply, returned>>

\* resp = llm.invoke(messages): the call is issued
DeferToLlm ==
    /\ rpc = "start"
    /\ ~high_band(site, top1, avg5, hits)
    /\ ~low_band(site, top1, avg5, hits)
    /\ llm_calls' = llm_calls + 1
    /\ rpc' = "llm"
    /\ UNCHANGED <<notRouter, site, top1, avg5, hits, decision, reply, returned>>

\* the call returns: decide_action parses the reply, router_chain main prints it
LlmReply ==
    /\ rpc = "llm"
    /\ \E content \in Replies :
          /\ reply' = content
          /\ decision' = IF site = "agent" THEN agent_parse(content)
                         ELSE [printed |-> content]
    /\ rpc' = "done"
    /\ UNCHANGED <<notRouter, site, top1, avg5, hits, llm_calls, returned>>

\* the call raises (service error, timeout): neither site catches it
LlmRaises ==
    /\ rpc = "llm"
    /\ rpc' = "raised"
    /\ UNCHANGED <<notRouter, site, top1, avg5, hits, decision, llm_calls, reply,
                   returned>>

\* call_router: router_chain.py exited with status 0, its output is scanned
CallRouterParse ==
    /\ site = "router_chain"
    /\ returned = None
    /\ rpc = "done"
    /\ returned' = scan_lines(stdout_lines(decision), Len(stdout_lines(decision)))
    /\ UNCHANGED <<notRouter, site, top1, avg5, hits, rpc, decision, llm_calls, reply>>

\* call_router: if router_process.returncode != 0 (the traceback of main)
CallRouterError ==
    /\ site = "router_chain"
    /\ returned = None
    /\ rpc = "raised"
    /\ returned' = [action |-> "escalate", confidence |-> 0,
                    reason |-> "Router error", error |-> "stderr"]
    /\ UNCHANGED <<notRouter, site, top1, avg5, hits, rpc, decision, llm_calls, reply>>

\* call_router: except subprocess.TimeoutExpired, the child is killed
CallRouterTimeout ==
    /\ site = "router_chain"
    /\ returned = None
    /\ rpc \in {"start", "llm"}
    /\ rpc' = "killed"
    /\ returned' = [action |-> "escalate", confidence |-> 0,
                    reason |-> "Router timeout"]
    /\ UNCHANGED <<notRouter, site, top1, avg5, hits, decision, llm_calls, reply>>

\* call_router: except Exception, subprocess.run could not start the child
CallRouterException ==
    /\ site = "router_chain"
    /\ returned = None
    /\ rpc = "start"
    /\ rpc' = "not_run"
    /\ returned' = [action |-> "escalate", confidence |-> 0,
                    reason |-> "Router exception"]
    /\ UNCHANGED <<notRouter, site, top1, avg5, hits, decision, llm_calls, reply>>

InitRouter ==
    /\ site \in Sites
    /\ top1 \in 0..100
    /\ avg5 \in 0..100
    /\ hits \in 0..MaxSignalHits
    /\ rpc = "start"
    /\ decision = None
    /\ llm_calls = 0
    /\ reply = <<>>
    /\ returned = None
    /\ AsmIdle
    /\ FuseIdle
    /\ DedupIdle
    /\ RecIdle
    /\ ToolIdle
    /\ RerankIdle
    /\ PreRetrieveIdle
    /\ ChatIdle
    /\ ParseIdle
    /\ ChunkIdle
    /\ MemoryIdle
    /\ ConcurrentIdle

NextRouter ==
    \/ HardRuleHigh
    \/ HardRuleLow
    \/ DeferToLlm
    \/ LlmReply
    \/ LlmRaises
    \/ CallRouterParse
    \/ CallRouterError
    \/ CallRouterTimeout
    \/ CallRouterException

SpecRouter == InitRouter /\ [][NextRouter]_vars

(* ------------- main: answer pass, judge pass, reconciliation ----------- *)
\* JSON values as Python sees them after json.loads; Absent marks a key the
\* object does not have.  Confidences are in hundredths.
JBool(b) == [bool |-> b]
JNum(n) == [num |-> n]
JStr(t) == [str |-> t]
JList(l) == [list |-> l]
JNull == [null |-> TRUE]
Absent == [absent |-> TRUE]

is_num(j) == "num" \in DOMAIN j

\* dict.get(key, default)
get(obj, key, default) == IF obj[key] = Absent THEN default ELSE obj[key]

\* Python truth value, as "not is_supported" takes it
truthy(j) ==
    CASE "bool" \in DOMAIN j -> j.bool
      [] "num" \in DOMAIN j -> j.num # 0
      [] "str" \in DOMAIN j -> j.str # ""
      [] "list" \in DOMAIN j -> j.list # <<>>
      [] OTHER -> FALSE

py_max(a, b) == IF b.num > a.num THEN b ELSE a

\* min(a, b) of two numbers
py_min(a, b) == IF b.num < a.num THEN b ELSE a

RECURSIVE sum_scores(_)
sum_scores(scores) ==
    IF scores = <<>> THEN 0 ELSE Head(scores) + sum_scores(Tail(scores))

\* top1 = reranked[0][1] if reranked else 0.0
top1_of(scores) == IF scores # <<>> THEN scores[1] ELSE 0

\* avg_top5, as the exact fraction num / den
avg_top5_of(scores) ==
    [num |-> sum_scores(Take(scores, 5)),
     den |-> IF Min(5, Len(scores)) >= 1 THEN Min(5, Len(scores)) ELSE 1]

\* low_retrieval_conf = (top1 < 0.35) or (avg_top5 < 0.30)
low_retrieval_conf(scores) ==
    \/ top1_of(scores) < 35
    \/ avg_top5_of(scores).num < 30 * avg_top5_of(scores).den

\* the reranked scores, best first
Scores == {10, 40, 90}

RerankedLists ==
    {r \in SeqsUpTo(Scores, MaxRerank) :
        \A i \in 1..Len(r) - 1 : r[i] >= r[i + 1]}

ChunkIdLists == {<<"manual.md:0">>, <<"manual.md:0", "manual.md:1">>}

\* What the answer pass can reply: text that is no JSON, JSON that is no
\* object, or an object whose keys may be missing and whose confidence may
\* be null.
AnswerReplies ==
    {[kind |-> "object", can_answer |-> c, confidence |-> f, answer |-> a,
      reason |-> JStr("because"), sources |-> o] :
        c \in {JBool(TRUE), JBool(FALSE), Absent},
        f \in {JNum(0), JNum(40), JNum(80), JNull, Absent},
        a \in {JStr("answer"), Absent},
        o \in {JList(<<"manual.md:0">>), JList(<<>>), Absent}}
    \cup {[kind |-> "value"], [kind |-> "text"]}

\* What the judge pass can reply.
JudgeReplies ==
    {[kind |-> "object", is_supported |-> u, hallucination_level |-> h,
      overall_confidence |-> f, comment |-> c] :
        u \in {JBool(TRUE), JBool(FALSE), Absent},
        h \in {JNum(0), JNum(1), JNum(2), JNull, Absent},
        f \in {JNum(20), JNum(90), JNull, Absent},
        c \in {JStr("unsupported"), Absent}}
    \cup {[kind |-> "value"], [kind |-> "text"]}

\* answer_text, where the code uses the reply itself as a string
raw_text(text) == JStr("answer_text")

plain_text_half(text, cids) ==
    [can_answer |-> JBool(TRUE), confidence |-> JNum(50), answer |-> raw_text(text),
     reason |-> JStr("Plain text answer"), sources |-> JList(cids)]

\* except json.JSONDecodeError of the first try
plain_text(text, cids) ==
    [can_answer |-> JBool(TRUE), confidence |-> JNum(70), answer |-> raw_text(text),
     reason |-> JStr("Plain text answer"), sources |-> JList(cids)]

can_answer_always(text) == JBool(TRUE)

\* can_answer = answer_json.get("can_answer", True)
can_answer_of(text) == get(text, "can_answer", JBool(TRUE))

\* The first try block: its locals, or raised when an exception other than
\* JSONDecodeError leaves it (.get on a value that is no dict).
answer_step(text, cids) ==
    IF text.kind = "text"
    THEN [raised |-> FALSE, locals |-> plain_text(text, cids)]
    ELSE IF text.kind = "value"
    THEN [raised |-> TRUE]
    ELSE [raised |-> FALSE,
          locals |->
            [can_answer |-> can_answer_of(text),
             confidence |-> get(text, "confidence", JNum(50)),
             answer |-> get(text, "answer", raw_text(text)),
             reason |-> get(text, "reason", JStr("")),
             sources |-> get(text, "sources", JList(cids))]]

overrides_on_level_only(is_supported, hallucination_level) ==
    is_num(hallucination_level) /\ hallucination_level.num >= 1

\* if not is_supported or hallucination_level >= 1
overrides(is_supported, hallucination_level) ==
    ~truthy(is_supported) \/ hallucination_level.num >= 1

keep_original_vetoed(locals) == [locals EXCEPT !.can_answer = JBool(FALSE)]

\* except json.JSONDecodeError: pass
keep_original(locals) == locals

\* The second try block, from the locals of the first: the locals after
\* it, or raised when an exception other than JSONDecodeError leaves it
\* (.get on a value that is no dict, >= or min on a null).
judge_step(locals, text) ==
    IF text.kind = "text"
    THEN [raised |-> FALSE, locals |-> keep_original(locals)]
    ELSE IF text.kind = "value"
    THEN [raised |-> TRUE]
    ELSE LET is_supported == get(text, "is_supported", JBool(TRUE))
             hallucination_level == get(text, "hallucination_level", JNum(0))
             judge_confidence == get(text, "overall_confidence", locals.confidence)
         IN  IF truthy(is_supported) /\ ~is_num(hallucination_level)
             THEN [raised |-> TRUE]
             ELSE IF overrides(is_supported, hallucination_level)
             THEN IF is_num(locals.confidence) /\ is_num(judge_confidence)
                  THEN [raised |-> FALSE,
                        locals |->
                          [locals EXCEPT
                             !.can_answer = JBool(FALSE),
                             !.confidence = py_min(locals.confidence, judge_confidence),
                             !.reason = get(text, "comment",
                                            JStr("Judge detected issues"))]]
                  ELSE [raised |-> TRUE]
             ELSE [raised |-> FALSE, locals |-> locals]

make_final_refusal_blank(locals, scores) ==
    [can_answer |-> locals.can_answer,
     confidence |-> locals.confidence,
     answer |-> IF truthy(locals.can_answer) THEN locals.answer ELSE JStr(""),
     reason |-> locals.reason,
     sources |-> IF truthy(locals.can_answer) THEN locals.sources
                 ELSE JList(<<>>),
     retrieval_scores |->
        [top1 |-> top1_of(scores), avg_top5 |-> avg_top5_of(scores),
         hits |-> Len(scores)]]

\* final_result = {...}
make_final(locals, scores) ==
    [can_answer |-> locals.can_answer,
     confidence |-> locals.confidence,
     answer |-> locals.answer,
     reason |-> locals.reason,
     sources |-> locals.sources,
     retrieval_scores |->
        [top1 |-> top1_of(scores), avg_top5 |-> avg_top5_of(scores),
         hits |-> Len(scores)]]

\* if not args.no_llm: false
NoLlm ==
    /\ qpc = "start"
    /\ qpc' = "skipped"
    /\ UNCHANGED <<notRec, reranked, chunk_ids, answer_text, judge_text,
                   answer_pass, final_result>>

\* resp = generate_answer(messages); answer_text = resp.content
AnswerCall ==
    /\ qpc = "start"
    /\ answer_text' \in AnswerReplies
    /\ qpc' = "answered"
    /\ UNCHANGED <<notRec, reranked, chunk_ids, judge_text, answer_pass,
                   final_result>>

\* judge_resp = generate_answer(judge_messages)
JudgeCall ==
    /\ qpc = "answered"
    /\ judge_text' \in JudgeReplies
    /\ qpc' = "judged"
    /\ UNCHANGED <<notRec, reranked, chunk_ids, answer_text, answer_pass,
                   final_result>>

\* generate_answer raises: main has no handler around either call
PassRaises ==
    /\ qpc \in {"start", "answered"}
    /\ qpc' = "llm_raised"
    /\ UNCHANGED <<notRec, reranked, chunk_ids, answer_text, judge_text,
                   answer_pass, final_result>>

\* the first try block completes
ParseAnswer ==
    /\ qpc = "judged"
    /\ ~answer_step(answer_text, chunk_ids).raised
    /\ answer_pass' = answer_step(answer_text, chunk_ids).locals
    /\ qpc' = "parsed"
    /\ UNCHANGED <<notRec, reranked, chunk_ids, answer_text, judge_text,
                   final_result>>

\* the first try block lets an exception through: main ends with a traceback
ParseAnswerRaises ==
    /\ qpc = "judged"
    /\ answer_step(answer_text, chunk_ids).raised
    /\ qpc' = "answer_crashed"
    /\ UNCHANGED <<notRec, reranked, chunk_ids, answer_text, judge_text,
                   answer_pass, final_result>>

\* the second try block completes and FINAL_JSON_RESULT is printed
ReconcileAndPrint ==
    /\ qpc = "parsed"
    /\ ~judge_step(answer_pass, judge_text).raised
    /\ final_result' = make_final(judge_step(answer_pass, judge_text).locals, reranked)
    /\ qpc' = "done"
    /\ UNCHANGED <<notRec, reranked, chunk_ids, answer_text, judge_text,
                   answer_pass>>

\* the second try block lets an exception through: main ends with a traceback
ReconcileRaises ==
    /\ qpc = "parsed"
    /\ judge_step(answer_pass, judge_text).raised
    /\ qpc' = "judge_crashed"
    /\ UNCHANGED <<notRec, reranked, chunk_ids, answer_text, judge_text,
                   answer_pass, final_result>>

InitReconcile ==
    /\ reranked \in RerankedLists
    /\ chunk_ids \in ChunkIdLists
    /\ answer_text = None
    /\ judge_text = None
    /\ answer_pass = None
    /\ final_result = None
    /\ qpc = "start"
    /\ AsmIdle
    /\ FuseIdle
    /\ DedupIdle
    /\ RouterIdle
    /\ ToolIdle
    /\ RerankIdle
    /\ PreRetrieveIdle
    /\ ChatIdle
    /\ ParseIdle
    /\ ChunkIdle
    /\ MemoryIdle
    /\ ConcurrentIdle

NextReconcile ==
    \/ NoLlm
    \/ AnswerCall
    \/ JudgeCall
    \/ PassRaises
    \/ ParseAnswer
    \/ ParseAnswerRaises
    \/ ReconcileAndPrint
    \/ ReconcileRaises

SpecReconcile == InitReconcile /\ [][NextReconcile]_vars

(* ---------------------------- RAGTool._run ----------------------------- *)
\* A line of hybrid_retrieve.py's output, by what _run sees in it:
\*   log                 any other line
\*   marker              FINAL_JSON_RESULT:
\*   rule                "=" * 80
\*   result              json.dumps(final_result), can_answer as given
\*   result_with_marker  such a line whose answer text holds the marker
\*   other_json          {...} that is JSON, without can_answer and answer
\*   broken_json         {...} that is no JSON
OutLines ==
    {[kind |-> k] : k \in {"log", "marker", "rule", "result_with_marker",
                           "other_json", "broken_json"}}
    \cup {[kind |-> "result", can_answer |-> b] : b \in BOOLEAN}

Stdouts == SeqsUpTo(OutLines, MaxOutLines)

\* the dict that main printed on a result line
printed_result(b) ==
    [can_answer |-> b, confidence |-> 80, answer |-> "answer", reason |-> "because",
     sources |-> <<"manual.md:0">>, retrieval_scores |-> "scores"]

\* json.loads of a line or of json_part
out_loads(line) ==
    CASE line.kind = "result" -> [ok |-> TRUE, value |-> printed_result(line.can_answer)]
      [] line.kind = "result_with_marker" -> [ok |-> TRUE, value |-> printed_result(TRUE)]
      [] line.kind = "other_json" -> [ok |-> TRUE, value |-> [debug_signals |-> TRUE]]
      [] OTHER -> [ok |-> FALSE]

\* "FINAL_JSON_RESULT:" in line
has_marker(line) == line.kind \in {"marker", "result_with_marker"}

\* "FINAL_JSON_RESULT:" in stdout
marker_in(lines) == \E i \in DOMAIN lines : has_marker(lines[i])

\* the line that holds the last occurrence of the marker: parts[-1] starts in it
last_marker(lines) ==
    CHOOSE i \in DOMAIN lines :
        /\ has_marker(lines[i])
        /\ \A j \in DOMAIN lines : has_marker(lines[j]) => j <= i

\* .split("=" * 80)[0] of whole lines
RECURSIVE upto_rule(_)
upto_rule(lines) ==
    IF lines = <<>> \/ Head(lines).kind = "rule"
    THEN <<>>
    ELSE <<Head(lines)>> \o upto_rule(Tail(lines))

\* json_part = parts[-1].split("=" * 80)[0].strip(): the rest of the
\* marker's line (empty after a marker line, the tail of a JSON text
\* otherwise) and the lines that follow up to the rule
json_part(lines) ==
    [tail |-> lines[last_marker(lines)].kind = "result_with_marker",
     rest |-> upto_rule(SubSeq(lines, last_marker(lines) + 1, Len(lines)))]

\* json.loads(json_part)
part_loads(part) ==
    IF ~part.tail /\ Len(part.rest) = 1
    THEN out_loads(part.rest[1])
    ELSE [ok |-> FALSE]

\* the marker branch returns
marker_found(lines) ==
    marker_in(lines) /\ part_loads(json_part(lines)).ok

\* line.startswith('{') and line.endswith('}')
in_braces(line) ==
    line.kind \in {"result", "result_with_marker", "other_json", "broken_json"}

\* If no JSON found, return the full output
no_json_found ==
    [status |-> "success", message |-> "stdout", raw_output |-> TRUE]

\* for line in reversed(lines), from line i down; the object returned
RECURSIVE scan_out(_, _)
scan_out(lines, i) ==
    IF i = 0
    THEN no_json_found
    ELSE IF /\ in_braces(lines[i])
            /\ out_loads(lines[i]).ok
            /\ \/ "can_answer" \in DOMAIN out_loads(lines[i]).value
               \/ "answer" \in DOMAIN out_loads(lines[i]).value
         THEN out_loads(lines[i]).value
         ELSE scan_out(lines, i - 1)

\* the object of the three error returns
error_result(message) ==
    [status |-> "error", message |-> message, can_answer |-> FALSE, confidence |-> 0]

\* if rag_process.returncode != 0
RunFails ==
    /\ tpc = "start"
    /\ tool_result' = error_result("RAG process failed: stderr")
    /\ tpc' = "returned"
    /\ UNCHANGED <<notTool, stdout>>

\* except subprocess.TimeoutExpired
RunTimesOut ==
    /\ tpc = "start"
    /\ tool_result' = error_result("RAG process timed out (>60s)")
    /\ tpc' = "returned"
    /\ UNCHANGED <<notTool, stdout>>

\* except Exception
RunRaises ==
    /\ tpc = "start"
    /\ tool_result' = error_result("Unexpected error: e")
    /\ tpc' = "returned"
    /\ UNCHANGED <<notTool, stdout>>

\* the subprocess exits with status 0: stdout = rag_process.stdout.strip()
RunSucceeds ==
    /\ tpc = "start"
    /\ stdout' \in Stdouts
    /\ tpc' = "exited"
    /\ UNCHANGED <<notTool, tool_result>>

\* the marker branch parses json_part and returns it
ReturnMarked ==
    /\ tpc = "exited"
    /\ marker_found(stdout)
    /\ tool_result' = part_loads(json_part(stdout)).value
    /\ tpc' = "returned"
    /\ UNCHANGED <<notTool, stdout>>

\* the fallback scan, and the return after it
ReturnScanned ==
    /\ tpc = "exited"
    /\ ~marker_found(stdout)
    /\ tool_result' = scan_out(stdout, Len(stdout))
    /\ tpc' = "returned"
    /\ UNCHANGED <<notTool, stdout>>

InitTool ==
    /\ tpc = "start"
    /\ stdout = <<>>
    /\ tool_result = None
    /\ AsmIdle
    /\ FuseIdle
    /\ DedupIdle
    /\ RouterIdle
    /\ RecIdle
    /\ RerankIdle
    /\ PreRetrieveIdle
    /\ ChatIdle
    /\ ParseIdle
    /\ ChunkIdle
    /\ MemoryIdle
    /\ ConcurrentIdle

NextTool ==
    \/ RunFails
    \/ RunTimesOut
    \/ RunRaises
    \/ RunSucceeds
    \/ ReturnMarked
    \/ ReturnScanned

SpecTool == InitTool /\ [][NextTool]_vars

(* ---------------- main: rerank, dedup, retrieval scores ---------------- *)
\* The fused candidates: block 0 may come twice, under its sparse id and
\* under its dense id; every other block comes under its dense id. A
\* candidate list is any selection of these, in this order; the order the
\* reranker gives them is free, since it follows from the scores.
CandBlocks == 0..(MaxCandBlocks - 1)

candidate(kind, b) ==
    [doc_id |-> <<kind, b>>,
     meta |-> [block_type |-> "text", source |-> "manual.md", block_idx |-> b]]

AllCandidates ==
    <<candidate("bm25", 0)>> \o [i \in 1..MaxCandBlocks |-> candidate("text", i - 1)]

Selection(seq, S) ==
    LET F[i \in 0..Len(seq)] ==
            IF i = 0 THEN <<>>
            ELSE IF i \in S THEN Append(F[i - 1], seq[i]) ELSE F[i - 1]
    IN  F[Len(seq)]

CandidateLists ==
    {Selection(AllCandidates, S) : S \in SUBSET (1..Len(AllCandidates))}

\* reranker.compute_score(pairs, normalize=True), in hundredths
RerankScores == {10, 40, 90}

\* --top-rerank, default 6
TopReranks == {1, 3, 6}

\* x placed in a list sorted by descending score, before every entry that
\* does not score higher: entries of equal score keep their order
RECURSIVE insert_by_score(_, _)
insert_by_score(x, sorted) ==
    IF sorted = <<>> THEN <<x>>
    ELSE IF Head(sorted).sc > x.sc
         THEN <<Head(sorted)>> \o insert_by_score(x, Tail(sorted))
         ELSE <<x>> \o sorted

sort_by_arrival(scored) == scored

\* reranked.sort(key=lambda x: x[1], reverse=True)
RECURSIVE sort_desc(_)
sort_desc(scored) ==
    IF scored = <<>> THEN <<>>
    ELSE insert_by_score(Head(scored), sort_desc(Tail(scored)))

\* rerank_bge(reranker, query, candidates, top_n) when the model scores
\* the candidates with scores
rerank_bge(fused_list, scores, n) ==
    IF fused_list = <<>> THEN <<>>
    ELSE Take(sort_desc([i \in 1..Len(fused_list) |->
                            [doc_id |-> fused_list[i].doc_id, sc |-> scores[i],
                             meta |-> fused_list[i].meta]]), n)

\* dedup_results as a function: the first item of every key, in order
RECURSIVE dedup_from(_, _)
dedup_from(its, seen_keys) ==
    IF its = <<>> THEN <<>>
    ELSE IF dedup_key(Head(its)) \in seen_keys
         THEN dedup_from(Tail(its), seen_keys)
         ELSE <<Head(its)>>
              \o dedup_from(Tail(its), seen_keys \cup {dedup_key(Head(its))})

scores_of(its) == [i \in 1..Len(its) |-> its[i].sc]

\* reranked = rerank_bge(reranker, args.query, fused, top_n=args.top_rerank * 2)
Rerank ==
    /\ kpc = "start"
    /\ \E scores \in [1..Len(candidates) -> RerankScores] :
          rr_hits' = rerank_bge(candidates, scores, top_rerank * 2)
    /\ kpc' = "reranked"
    /\ UNCHANGED <<notRerank, candidates, top_rerank, retrieval_scores>>

\* reranked = dedup_results(reranked)[: args.top_rerank]
DedupTruncate ==
    /\ kpc = "reranked"
    /\ rr_hits' = Take(dedup_from(rr_hits, {}), top_rerank)
    /\ kpc' = "final"
    /\ UNCHANGED <<notRerank, candidates, top_rerank, retrieval_scores>>

\* top1, avg_top5 and the retrieval_scores entry of final_result
ComputeScores ==
    /\ kpc = "final"
    /\ retrieval_scores' =
          [top1 |-> top1_of(scores_of(rr_hits)),
           avg_top5 |-> avg_top5_of(scores_of(rr_hits)),
           hits |-> Len(rr_hits)]
    /\ kpc' = "scored"
    /\ UNCHANGED <<notRerank, candidates, top_rerank, rr_hits>>

InitRerank ==
    /\ candidates \in CandidateLists
    /\ top_rerank \in TopReranks
    /\ kpc = "start"
    /\ rr_hits = <<>>
    /\ retrieval_scores = None
    /\ AsmIdle
    /\ FuseIdle
    /\ DedupIdle
    /\ RouterIdle
    /\ RecIdle
    /\ ToolIdle
    /\ PreRetrieveIdle
    /\ ChatIdle
    /\ ParseIdle
    /\ ChunkIdle
    /\ MemoryIdle
    /\ ConcurrentIdle

NextRerank ==
    \/ Rerank
    \/ DedupTruncate
    \/ ComputeScores

SpecRerank == InitRerank /\ [][NextRerank]_vars

(* --------------------- app.py main: pre-retrieval ---------------------- *)
\* n_results=5
n_results == 5

\* chroma distances; the score 1 / (1 + d) of each, in hundredths
Distances == {0, 1, 3}

score_of(d) == 100 \div (1 + d)

\* m.get("section_path", ""), "" when the metadata has none
SectionPaths == {"", "Brewing", "Cleaning"}

\* the results of a query: up to n_results hits, nearest first
QueryResults ==
    {[distances |-> ds, sections |-> sp] :
        ds \in {d \in SeqsUpTo(Distances, n_results) :
                    \A i \in 1..(Len(d) - 1) : d[i] <= d[i + 1]},
        sp \in SeqsUpTo(SectionPaths, n_results)}

\* the services the try block calls
Services == {"embedding", "vector_index"}

\* retrieval_signals of the else branch
empty_signals ==
    [top1 |-> 0, avg_top5 |-> [num |-> 0, den |-> 1], hits |-> 0,
     sections |-> {}]

\* retrieval_signals of the except branch
fallback_signals ==
    [top1 |-> 0, avg_top5 |-> [num |-> 0, den |-> 1], hits |-> 0,
     sections |-> {}]

\* retrieval_signals of the if branch; list(set(...))[:3] keeps any three
\* of the section paths found
hit_signals(r, kept) ==
    LET scores == [i \in 1..Len(r.distances) |-> score_of(r.distances[i])]
    IN  [top1 |-> scores[1],
         avg_top5 |-> [num |-> sum_scores(Take(scores, 5)), den |-> Len(scores)],
         hits |-> Len(scores),
         sections |-> kept]

found_sections(r) == {sp \in Range(r.sections) : sp # ""}

\* embed_query and collection.query return
QuerySucceeds ==
    /\ ppc = "start"
    /\ \E r \in QueryResults :
          /\ Len(r.distances) = Len(r.sections)
          /\ res' = r
    /\ ppc' = "queried"
    /\ UNCHANGED <<notPreRetrieve, pre_error, warned, retrieval_signals>>

\* the embedder, the client, get_collection or the query raises
ServiceFails ==
    /\ ppc = "start"
    /\ \E sv \in Services : pre_error' = [service |-> sv]
    /\ ppc' = "failed"
    /\ UNCHANGED <<notPreRetrieve, res, warned, retrieval_signals>>

\* if res["ids"][0]: true
SignalsFromHits ==
    /\ ppc = "queried"
    /\ res.distances # <<>>
    /\ \E kept \in SUBSET found_sections(res) :
          /\ Cardinality(kept) = Min(3, Cardinality(found_sections(res)))
          /\ retrieval_signals' = hit_signals(res, kept)
    /\ ppc' = "signals"
    /\ UNCHANGED <<notPreRetrieve, res, pre_error, warned>>

\* if res["ids"][0]: false
SignalsZeroHits ==
    /\ ppc = "queried"
    /\ res.distances = <<>>
    /\ retrieval_signals' = empty_signals
    /\ ppc' = "signals"
    /\ UNCHANGED <<notPreRetrieve, res, pre_error, warned>>

\* except Exception as e: st.warning(...); retrieval_signals = {...}
SignalsAfterFailure ==
    /\ ppc = "failed"
    /\ warned' = TRUE
    /\ retrieval_signals' = fallback_signals
    /\ ppc' = "signals"
    /\ UNCHANGED <<notPreRetrieve, res, pre_error>>

InitPreRetrieve ==
    /\ ppc = "start"
    /\ res = None
    /\ pre_error = None
    /\ warned = FALSE
    /\ retrieval_signals = None
    /\ AsmIdle
    /\ FuseIdle
    /\ DedupIdle
    /\ RouterIdle
    /\ RecIdle
    /\ ToolIdle
    /\ RerankIdle
    /\ ChatIdle
    /\ ParseIdle
    /\ ChunkIdle
    /\ MemoryIdle
    /\ ConcurrentIdle

NextPreRetrieve ==
    \/ QuerySucceeds
    \/ ServiceFails
    \/ SignalsFromHits
    \/ SignalsZeroHits
    \/ SignalsAfterFailure

SpecPreRetrieve == InitPreRetrieve /\ [][NextPreRetrieve]_vars

(* ----------------- app.py main: acting on the decision ----------------- *)
\* the actions a router decision can carry
ChatActions == {"rag", "escalate", "db", "api", "other"}

\* What rag_tool._run can return: an object whose can_answer, confidence,
\* answer and reason may be missing and whose confidence may be null (a final
\* result whose answer pass reported null), or JSON that is no object.
RagResults ==
    {[kind |-> "object", can_answer |-> c, confidence |-> f, answer |-> a,
      reason |-> n] :
        c \in {JBool(TRUE), JBool(FALSE), Absent},
        f \in {JNum(0), JNum(40), JNum(50), JNum(80), JNull, Absent},
        a \in {JStr("answer"), Absent},
        n \in {JStr("no evidence"), Absent}}
    \cup {[kind |-> "value"]}

\* escalate_tool._run: the message of a created ticket, or of a failure to
\* create one; both replies carry "message"
EscalateMessages == {"ticket created", "ticket failed"}

\* the debug text formats rag_result.get('confidence', 0.0) with :.2f,
\* after rag_result.get on the parsed value
debug_formats(r) ==
    /\ r.kind = "object"
    /\ is_num(get(r, "confidence", JNum(0)))

\* if rag_result.get("confidence", 0.0) < 0.5
gate_below(r) == get(r, "confidence", JNum(0)).num < 50

\* rag_result_str = rag_tool._run(user_query); rag_result = json.loads(...)
RunRag ==
    /\ cpc = "start"
    /\ chat_action = "rag"
    /\ rag_result' \in RagResults
    /\ cpc' = "rag_done"
    /\ UNCHANGED <<notChat, chat_action, response_content, response_metadata,
                   escalate_calls>>

\* .get on a value that is no dict, or :.2f on a null: no handler, the
\* script run ends before a response is recorded
RagDebugRaises ==
    /\ cpc = "rag_done"
    /\ ~debug_formats(rag_result)
    /\ cpc' = "crashed"
    /\ UNCHANGED <<notChat, chat_action, rag_result, response_content,
                   response_metadata, escalate_calls>>

\* can_answer is true and the confidence is not below 0.5
ShowAnswer ==
    /\ cpc = "rag_done"
    /\ debug_formats(rag_result)
    /\ truthy(get(rag_result, "can_answer", JBool(FALSE)))
    /\ ~gate_below(rag_result)
    /\ response_content' = get(rag_result, "answer", JStr("No answer provided")).str
    /\ cpc' = "responded"
    /\ UNCHANGED <<notChat, chat_action, rag_result, response_metadata,
                   escalate_calls>>

\* can_answer is true and the confidence is below 0.5
EscalateLowConfidence ==
    /\ cpc = "rag_done"
    /\ debug_formats(rag_result)
    /\ truthy(get(rag_result, "can_answer", JBool(FALSE)))
    /\ gate_below(rag_result)
    /\ escalate_calls' = escalate_calls + 1
    /\ response_content' \in EscalateMessages
    /\ response_metadata' = [response_metadata EXCEPT !.action = "escalate"]
    /\ cpc' = "responded"
    /\ UNCHANGED <<notChat, chat_action, rag_result>>

\* can_answer is false or missing
EscalateCannotAnswer ==
    /\ cpc = "rag_done"
    /\ debug_formats(rag_result)
    /\ ~truthy(get(rag_result, "can_answer", JBool(FALSE)))
    /\ escalate_calls' = escalate_calls + 1
    /\ response_content' \in EscalateMessages
    /\ response_metadata' = [response_metadata EXCEPT !.action = "escalate"]
    /\ cpc' = "responded"
    /\ UNCHANGED <<notChat, chat_action, rag_result>>

\* elif action == "escalate"
EscalateRouted ==
    /\ cpc = "start"
    /\ chat_action = "escalate"
    /\ escalate_calls' = escalate_calls + 1
    /\ response_content' \in EscalateMessages
    /\ cpc' = "responded"
    /\ UNCHANGED <<notChat, chat_action, rag_result, response_metadata>>

\* elif action in ["db", "api"]
NotImplemented ==
    /\ cpc = "start"
    /\ chat_action \in {"db", "api"}
    /\ response_content' = "not yet implemented"
    /\ response_metadata' = [response_metadata EXCEPT !.action = "escalate"]
    /\ cpc' = "responded"
    /\ UNCHANGED <<notChat, chat_action, rag_result, escalate_calls>>

\* else
UnknownAction ==
    /\ cpc = "start"
    /\ chat_action \notin {"rag", "escalate", "db", "api"}
    /\ response_content' = "Unknown action"
    /\ response_metadata' = [response_metadata EXCEPT !.error = TRUE]
    /\ cpc' = "responded"
    /\ UNCHANGED <<notChat, chat_action, rag_result, escalate_calls>>

InitChat ==
    /\ chat_action \in ChatActions
    /\ cpc = "start"
    /\ rag_result = None
    /\ response_content = ""
    /\ response_metadata = [action |-> chat_action, error |-> FALSE]
    /\ escalate_calls = 0
    /\ AsmIdle
    /\ FuseIdle
    /\ DedupIdle
    /\ RouterIdle
    /\ RecIdle
    /\ ToolIdle
    /\ RerankIdle
    /\ PreRetrieveIdle
    /\ ParseIdle
    /\ ChunkIdle
    /\ MemoryIdle
    /\ ConcurrentIdle

NextChat ==
    \/ RunRag
    \/ RagDebugRaises
    \/ ShowAnswer
    \/ EscalateLowConfidence
    \/ EscalateCannotAnswer
    \/ EscalateRouted
    \/ NotImplemented
    \/ UnknownAction

SpecChat == InitChat /\ [][NextChat]_vars

(* ------------------- router_chain: parse_signals ----------------------- *)
\* A string argument, by what the parsers look at: the quote, if any, that
\* wraps the whole string; the shape of what is inside (an object with
\* numeric values, a list of words, a number, a bare word, or a Python
\* literal that is no JSON, such as None or (1, 2)); the quotes around the
\* object's keys or the list's items; and whether a repair has left
\* doubled quotes in it.
Wraps == {"none", "single", "double"}
Quotings == {"double", "single", "bare"}

Texts ==
    {[kind |-> "str", wrap |-> w, shape |-> sh, quotes |-> q, broken |-> FALSE] :
        w \in Wraps, sh \in {"object", "list"}, q \in Quotings}
    \cup {[kind |-> "str", wrap |-> w, shape |-> sh, quotes |-> "bare",
           broken |-> FALSE] :
            w \in Wraps, sh \in {"number", "word", "pyliteral"}}

\* the arguments of parse_signals: a dict, None, an empty or blank string,
\* or a string with content
RawInputs ==
    {[kind |-> "dict"], [kind |-> "none"], [kind |-> "blank"]} \cup Texts

Failed == [kind |-> "failed"]
Mapping(content) == [kind |-> "mapping", content |-> content]
NonMapping(type) == [kind |-> "value", type |-> type]

\* the value of an unwrapped text whose quotes the parser accepts
value_of(t) ==
    CASE t.shape = "object" -> Mapping("signals")
      [] t.shape = "list" -> NonMapping("list")
      [] t.shape = "number" -> NonMapping("number")
      [] OTHER -> NonMapping("literal")

\* json.loads(cand): a text wrapped in double quotes with no double quote
\* inside is a JSON string
text_loads(t) ==
    IF t.broken \/ t.wrap = "single" THEN Failed
    ELSE IF t.wrap = "double"
    THEN IF t.quotes = "double" THEN Failed ELSE NonMapping("string")
    ELSE IF t.shape \in {"word", "pyliteral"} THEN Failed
    ELSE IF t.shape = "number" THEN value_of(t)
    ELSE IF t.quotes = "double" THEN value_of(t) ELSE Failed

\* s.startswith("'") and s.endswith("'") or the same with '"'
is_wrapped(t) == t.wrap # "none"

\* s[1:-1]
strip_outer(t) == [t EXCEPT !.wrap = "none"]

\* s.replace("'", '"')
replace_quotes(t) ==
    [t EXCEPT !.wrap = IF @ = "single" THEN "double" ELSE @,
              !.quotes = IF @ = "single" THEN "double" ELSE @]

\* re.sub(r"(\b\w+\b)\s*:", r'"\1":', s): bare keys become quoted, quoted
\* keys get a second pair of quotes
fix_keys(t) ==
    IF t.shape # "object" THEN t
    ELSE IF t.quotes = "bare" THEN [t EXCEPT !.quotes = "double"]
    ELSE [t EXCEPT !.broken = TRUE]

\* fix_lists: every item of a bracketed list comes out in double quotes
fix_lists(t) ==
    IF t.shape = "list" THEN [t EXCEPT !.quotes = "double"] ELSE t

\* ast.literal_eval(s): a wrapped text with no quote of the wrapping kind
\* inside is a string literal
literal_eval(t) ==
    IF t.wrap # "none"
    THEN IF t.quotes = t.wrap THEN Failed ELSE NonMapping("string")
    ELSE IF t.shape = "word" THEN Failed
    ELSE IF t.shape \in {"number", "pyliteral"} THEN value_of(t)
    ELSE IF t.quotes = "bare" THEN Failed ELSE value_of(t)

\* candidates, in the order they are appended
candidates_of(t) ==
    <<[name |-> "strict", text |-> t]>>
    \o (IF is_wrapped(t) THEN <<[name |-> "unwrapped", text |-> strip_outer(t)]>>
        ELSE <<>>)
    \o <<[name |-> "requoted", text |-> replace_quotes(t)],
         [name |-> "repaired", text |-> fix_lists(fix_keys(t))]>>

\* if isinstance(raw, dict): return raw
ReturnDict ==
    /\ spc = "start"
    /\ raw.kind = "dict"
    /\ parsed' = Mapping("signals")
    /\ strategy' = "dict"
    /\ spc' = "returned"
    /\ UNCHANGED <<notParse, raw, has_override, cands, cand_i>>

\* if raw is None: return {}; if not s: return {}
ReturnEmpty ==
    /\ spc = "start"
    /\ raw.kind \in {"none", "blank"}
    /\ parsed' = Mapping("empty")
    /\ strategy' = "empty"
    /\ spc' = "returned"
    /\ UNCHANGED <<notParse, raw, has_override, cands, cand_i>>

\* candidates = [s] ... candidates.append(fixed)
BuildCandidates ==
    /\ spc = "start"
    /\ raw.kind = "str"
    /\ cands' = candidates_of(raw)
    /\ cand_i' = 1
    /\ spc' = "loop"
    /\ UNCHANGED <<notParse, raw, has_override, parsed, strategy>>

\* return json.loads(cand)
CandidateLoads ==
    /\ spc = "loop"
    /\ cand_i <= Len(cands)
    /\ text_loads(cands[cand_i].text) # Failed
    /\ parsed' = text_loads(cands[cand_i].text)
    /\ strategy' = cands[cand_i].name
    /\ spc' = "returned"
    /\ UNCHANGED <<notParse, raw, has_override, cands, cand_i>>

\* except Exception: continue
CandidateFails ==
    /\ spc = "loop"
    /\ cand_i <= Len(cands)
    /\ text_loads(cands[cand_i].text) = Failed
    /\ cand_i' = cand_i + 1
    /\ UNCHANGED <<notParse, spc, raw, has_override, cands, parsed, strategy>>

\* return ast.literal_eval(s)
LiteralEvalReturns ==
    /\ spc = "loop"
    /\ cand_i > Len(cands)
    /\ literal_eval(raw) # Failed
    /\ parsed' = literal_eval(raw)
    /\ strategy' = "literal"
    /\ spc' = "returned"
    /\ UNCHANGED <<notParse, raw, has_override, cands, cand_i>>

\* except Exception: return {}
LiteralEvalFails ==
    /\ spc = "loop"
    /\ cand_i > Len(cands)
    /\ literal_eval(raw) = Failed
    /\ parsed' = Mapping("empty")
    /\ strategy' = "default"
    /\ spc' = "returned"
    /\ UNCHANGED <<notParse, raw, has_override, cands, cand_i>>

\* main: signals[...] = ... and signals.get(...) on a mapping
MainReadsSignals ==
    /\ spc = "returned"
    /\ parsed.kind = "mapping"
    /\ spc' = "routing"
    /\ UNCHANGED <<notParse, raw, has_override, cands, cand_i, parsed,
                   strategy>>

\* main: signals[...] = ... or signals.get(...) raises on a value that is
\* no mapping; main has no handler
MainRaises ==
    /\ spc = "returned"
    /\ parsed.kind # "mapping"
    /\ spc' = "crashed"
    /\ UNCHANGED <<notParse, raw, has_override, cands, cand_i, parsed,
                   strategy>>

InitParse ==
    /\ raw \in RawInputs
    /\ has_override \in BOOLEAN
    /\ spc = "start"
    /\ cands = <<>>
    /\ cand_i = 1
    /\ parsed = None
    /\ strategy = "none"
    /\ AsmIdle
    /\ FuseIdle
    /\ DedupIdle
    /\ RouterIdle
    /\ RecIdle
    /\ ToolIdle
    /\ RerankIdle
    /\ PreRetrieveIdle
    /\ ChatIdle
    /\ ChunkIdle
    /\ MemoryIdle
    /\ ConcurrentIdle

NextParse ==
    \/ ReturnDict
    \/ ReturnEmpty
    \/ BuildCandidates
    \/ CandidateLoads
    \/ CandidateFails
    \/ LiteralEvalReturns
    \/ LiteralEvalFails
    \/ MainReadsSignals
    \/ MainRaises

SpecParse == InitParse /\ [][NextParse]_vars

(* ------------- chunker, load_chunk_map and sparse_search --------------- *)
\* src.name
SourceName == "manual.md"

\* the chunks of section number sec, which splits into n chunks: block_idx
\* is the position within the section; the text of a chunk is written as
\* the pair of its section and its position
section_docs(sec, n) ==
    [j \in 1..n |->
        [text |-> <<sec, j - 1>>, section_path |-> sec, source |-> SourceName,
         block_idx |-> j - 1, block_type |-> "text"]]

\* key = (c["source"], int(c["block_idx"]))
chunk_key(c) == <<c.source, c.block_idx>>

\* doc_id = f"bm25-{meta.get('source','')}-{meta.get('block_idx', i)}"
sparse_id(meta) == <<"bm25", meta.source, meta.block_idx>>

\* mp[key] = c for every chunk in order: the last chunk of a key stays
chunk_map_of(chunks) ==
    {<<chunk_key(chunks[i]), chunks[i]>> : i \in
        {i \in 1..Len(chunks) :
            \A j \in (i + 1)..Len(chunks) : chunk_key(chunks[j]) # chunk_key(chunks[i])}}

\* for sec in sections: for i, chunk in enumerate(...): docs.append(...)
ChunkSection ==
    /\ chpc = "chunking"
    /\ sec_i <= Len(section_sizes)
    /\ docs' = docs \o section_docs(sec_i, section_sizes[sec_i])
    /\ sec_i' = sec_i + 1
    /\ UNCHANGED <<notChunk, chpc, section_sizes, mp, sparse_out>>

\* the chunks are written to chunks.jsonl
WriteChunks ==
    /\ chpc = "chunking"
    /\ sec_i > Len(section_sizes)
    /\ chpc' = "written"
    /\ UNCHANGED <<notChunk, section_sizes, sec_i, docs, mp, sparse_out>>

\* chunk_map = load_chunk_map(chunks)
LoadChunkMap ==
    /\ chpc = "written"
    /\ mp' = chunk_map_of(docs)
    /\ chpc' = "mapped"
    /\ UNCHANGED <<notChunk, section_sizes, sec_i, docs, sparse_out>>

\* sparse_hits = sparse_search(bm25, query, k): the retriever returns some
\* of the chunks
SparseSearch ==
    /\ chpc = "mapped"
    /\ \E S \in SUBSET (1..Len(docs)) :
          LET found == Selection(docs, S)
          IN  sparse_out' =
                [i \in 1..Len(found) |->
                    [doc_id |-> sparse_id(found[i]), meta |-> found[i],
                     doc |-> found[i].text]]
    /\ chpc' = "searched"
    /\ UNCHANGED <<notChunk, section_sizes, sec_i, docs, mp>>

InitChunk ==
    /\ section_sizes \in SeqsUpTo(0..MaxChunks, MaxSections)
    /\ chpc = "chunking"
    /\ sec_i = 1
    /\ docs = <<>>
    /\ mp = {}
    /\ sparse_out = <<>>
    /\ AsmIdle
    /\ FuseIdle
    /\ DedupIdle
    /\ RouterIdle
    /\ RecIdle
    /\ ToolIdle
    /\ RerankIdle
    /\ PreRetrieveIdle
    /\ ChatIdle
    /\ ParseIdle
    /\ MemoryIdle
    /\ ConcurrentIdle

NextChunk ==
    \/ ChunkSection
    \/ WriteChunks
    \/ LoadChunkMap
    \/ SparseSearch

SpecChunk == InitChunk /\ [][NextChunk]_vars

(* --------------------------- MemoryManager ----------------------------- *)
\* Manager 1 is built by the constructor, manager 2 by from_dict. A manager
\* holds its deque and a reference to a list object; two managers may
\* refer to the same list.
ManagerIds == {1, 2}
ListIds == {1, 2}

Contents == {"a", "b"}

\* the window k, in turns
WindowSizes == {0, 1, 2}

\* HumanMessage(content=message), AIMessage(content=message)
HumanMessage(c) == [type |-> "human", content |-> c]
AIMessage(c) == [type |-> "ai", content |-> c]

\* the entry of full_history, without metadata and timestamp
entry(role, c) == [role |-> role, content |-> c]

no_manager == [live |-> FALSE, window_size |-> 0, windowed_messages |-> <<>>,
               full_history |-> 1]

\* deque(maxlen=maxlen).append(x)
deque_append(d, x, maxlen) ==
    IF maxlen = 0 THEN <<>>
    ELSE IF Len(d) >= maxlen THEN Append(Tail(d), x)
    ELSE Append(d, x)

\* lst[-n:], where -0 is 0 and the slice is the whole list
slice_last(lst, n) ==
    IF n = 0 \/ n >= Len(lst) THEN lst
    ELSE SubSeq(lst, Len(lst) - n + 1, Len(lst))

\* from_dict's loop over recent_history
RECURSIVE restore_window(_, _, _)
restore_window(d, recent, maxlen) ==
    IF recent = <<>> THEN d
    ELSE restore_window(
            IF Head(recent).role = "user"
            THEN deque_append(d, HumanMessage(Head(recent).content), maxlen)
            ELSE IF Head(recent).role = "assistant"
            THEN deque_append(d, AIMessage(Head(recent).content), maxlen)
            ELSE d,
            Tail(recent), maxlen)

other_list(l) == 3 - l

\* some other live manager refers to the list of manager m
is_shared(m) ==
    \E o \in ManagerIds \ {m} :
        managers[o].live /\ managers[o].full_history = managers[m].full_history

\* add_user_message(message)
AddUserMessage ==
    \E m \in ManagerIds, c \in Contents :
        /\ managers[m].live
        /\ Len(lists[managers[m].full_history]) < MaxHistory
        /\ managers' =
              [managers EXCEPT ![m].windowed_messages =
                  deque_append(@, HumanMessage(c), managers[m].window_size * 2)]
        /\ lists' = [lists EXCEPT ![managers[m].full_history] =
                                      Append(@, entry("user", c))]
        /\ UNCHANGED notMemory

\* add_ai_message(message)
AddAiMessage ==
    \E m \in ManagerIds, c \in Contents :
        /\ managers[m].live
        /\ Len(lists[managers[m].full_history]) < MaxHistory
        /\ managers' =
              [managers EXCEPT ![m].windowed_messages =
                  deque_append(@, AIMessage(c), managers[m].window_size * 2)]
        /\ lists' = [lists EXCEPT ![managers[m].full_history] =
                                      Append(@, entry("assistant", c))]
        /\ UNCHANGED notMemory

\* clear(): the deque is emptied and full_history is bound to a new list
Clear ==
    \E m \in ManagerIds :
        /\ managers[m].live
        /\ LET new == IF is_shared(m) THEN other_list(managers[m].full_history)
                      ELSE managers[m].full_history
           IN  /\ managers' = [managers EXCEPT ![m].windowed_messages = <<>>,
                                               ![m].full_history = new]
               /\ lists' = [lists EXCEPT ![new] = <<>>]
        /\ UNCHANGED notMemory

restored(data_list, window_size) ==
    [live |-> TRUE, window_size |-> window_size,
     windowed_messages |->
        restore_window(<<>>, slice_last(lists[data_list], window_size * 2),
                       window_size * 2),
     full_history |-> data_list]

\* manager 2 = MemoryManager.from_dict(manager 1.to_dict()): to_dict hands
\* out the list itself and from_dict keeps it
RestoreFromDict ==
    /\ managers[1].live
    /\ ~managers[2].live
    /\ managers' = [managers EXCEPT
                      ![2] = restored(managers[1].full_history,
                                      managers[1].window_size)]
    /\ UNCHANGED <<notMemory, lists>>

\* manager 2 = MemoryManager.from_dict(d), d read back from a stored copy
\* of manager 1.to_dict()
RestoreFromStoredDict ==
    /\ managers[1].live
    /\ ~managers[2].live
    /\ LET copy == other_list(managers[1].full_history)
       IN  /\ lists' = [lists EXCEPT ![copy] = lists[managers[1].full_history]]
           /\ managers' = [managers EXCEPT
                             ![2] = [restored(managers[1].full_history,
                                              managers[1].window_size)
                                        EXCEPT !.full_history = copy]]
    /\ UNCHANGED notMemory

InitMemory ==
    /\ \E k \in WindowSizes :
          managers = [m \in ManagerIds |->
                        IF m = 1
                        THEN [live |-> TRUE, window_size |-> k,
                              windowed_messages |-> <<>>, full_history |-> 1]
                        ELSE no_manager]
    /\ lists = [l \in ListIds |-> <<>>]
    /\ AsmIdle
    /\ FuseIdle
    /\ DedupIdle
    /\ RouterIdle
    /\ RecIdle
    /\ ToolIdle
    /\ RerankIdle
    /\ PreRetrieveIdle
    /\ ChatIdle
    /\ ParseIdle
    /\ ChunkIdle
    /\ ConcurrentIdle

NextMemory ==
    \/ AddUserMessage
    \/ AddAiMessage
    \/ Clear
    \/ RestoreFromDict
    \/ RestoreFromStoredDict

SpecMemory == InitMemory /\ [][NextMemory]_vars

(* -------------- two RAGTool._run calls in flight at once --------------- *)
\* Each _run call starts hybrid_retrieve.py as a process of its own; the
\* processes read the same chunks file and the same collection.
Procs == {1, 2}

Topics == {"brew", "clean", "descale"}

StoreBlocks == 0..(MaxStoreBlocks - 1)

\* the --top-rerank RAGTool passes, here set to 2
conc_top_rerank == 2

\* the address space in which process p keeps the variables of main
owner_first_process(p) == 1

\* subprocess.run([sys.executable, hybrid_retrieve.py, ...]): a new process
owner(p) == p

\* dense_search and sparse_search for a query: the blocks of its topic, each
\* found under its dense id, block 0 also under its sparse id
search(topic, st) ==
    Selection(<<candidate("bm25", 0)>>
                 \o [i \in 1..MaxStoreBlocks |-> candidate("text", i - 1)],
              {i \in 1..(MaxStoreBlocks + 1) :
                  st[IF i = 1 THEN 0 ELSE i - 2] = topic})

\* the score the reranker gives a block for any query of its topic
relevance(c) == IF c.meta.block_idx = 1 THEN 90 ELSE 40

\* rerank_bge, dedup_results and the slice, on the hits of one process
reranked_of(found) ==
    Take(dedup_from(rerank_bge(found,
                               [i \in 1..Len(found) |-> relevance(found[i])],
                               conc_top_rerank * 2), {}),
         conc_top_rerank)

\* the final result main prints for a query and its reranked hits, the two
\* model replies being a function of the query and the context
final_of(topic, rr) ==
    make_final([can_answer |-> JBool(~low_retrieval_conf(scores_of(rr))),
                confidence |-> JNum(top1_of(scores_of(rr))),
                answer |-> JStr(topic),
                reason |-> JStr(""),
                sources |-> JList([i \in 1..Len(rr) |-> rr[i].doc_id])],
               scores_of(rr))

\* main up to the sparse search
SearchStage ==
    \E p \in Procs :
        /\ cq_pos[p] = "start"
        /\ mem' = [mem EXCEPT ![owner(p)].found = search(queries[p], store)]
        /\ cq_pos' = [cq_pos EXCEPT ![p] = "searched"]
        /\ UNCHANGED <<notConcurrent, store, queries, outputs>>

\* main: fusion, rerank, dedup
RerankStage ==
    \E p \in Procs :
        /\ cq_pos[p] = "searched"
        /\ mem' = [mem EXCEPT ![owner(p)].rr =
                      reranked_of(mem[owner(p)].found)]
        /\ cq_pos' = [cq_pos EXCEPT ![p] = "reranked"]
        /\ UNCHANGED <<notConcurrent, store, queries, outputs>>

\* main: context, answer pass, judge pass, FINAL_JSON_RESULT
AnswerStage ==
    \E p \in Procs :
        /\ cq_pos[p] = "reranked"
        /\ outputs' = [outputs EXCEPT ![p] =
                          final_of(queries[p], mem[owner(p)].rr)]
        /\ cq_pos' = [cq_pos EXCEPT ![p] = "done"]
        /\ UNCHANGED <<notConcurrent, store, queries, mem>>

InitConcurrent ==
    /\ store \in [StoreBlocks -> Topics]
    /\ queries \in [Procs -> Topics]
    /\ cq_pos = [p \in Procs |-> "start"]
    /\ mem = [p \in Procs |-> [found |-> <<>>, rr |-> <<>>]]
    /\ outputs = [p \in Procs |-> None]
    /\ AsmIdle
    /\ FuseIdle
    /\ DedupIdle
    /\ RouterIdle
    /\ RecIdle
    /\ ToolIdle
    /\ RerankIdle
    /\ PreRetrieveIdle
    /\ ChatIdle
    /\ ParseIdle
    /\ ChunkIdle
    /\ MemoryIdle

NextConcurrent ==
    \/ SearchStage
    \/ RerankStage
    \/ AnswerStage

SpecConcurrent == InitConcurrent /\ [][NextConcurrent]_vars

(* ----------------------- claims on the router -------------------------- *)
\* C9: at each router call site no signals triple is in the high band and
\* in the low band, so testing the low rule first gives the same decision:
\* a finished hard-rule decision is escalate exactly when the triple is in
\* the low band.
C9_BandsDisjoint ==
    rpc # "idle" =>
        /\ ~(high_band(site, top1, avg5, hits) /\ low_band(site, top1, avg5, hits))
        /\ (rpc = "done" /\ llm_calls = 0) =>
              decision.action = (IF low_band(site, top1, avg5, hits)
                                 THEN "escalate" ELSE "rag")

\* a hard-rule decision taken on the edge of the agent's high band, which is
\* inside neither low band
C9_Witness ==
    /\ rpc = "done"
    /\ site = "agent"
    /\ top1 = agent_high_top1 /\ avg5 = agent_high_avg5 /\ hits = agent_high_hits
    /\ decision.action = "rag"

\* C10: at both call sites a triple in the high band yields rag with
\* confidence 0.9 and a triple in the low band yields escalate with
\* confidence 0.9, and no chat-model call is issued for either; Scenario A
\* (0.8, 0.6, 5) gives rag and Scenario B (0.1, 0.05, 1) gives escalate.
C10_HardRules ==
    rpc # "idle" =>
        /\ (high_band(site, top1, avg5, hits) \/ low_band(site, top1, avg5, hits))
              => (llm_calls = 0 /\ rpc \notin {"llm", "raised"})
        /\ (rpc = "done" /\ high_band(site, top1, avg5, hits))
              => (decision.action = "rag" /\ decision.confidence = 90)
        /\ (rpc = "done" /\ low_band(site, top1, avg5, hits))
              => (decision.action = "escalate" /\ decision.confidence = 90)
        /\ (rpc = "done" /\ top1 = 80 /\ avg5 = 60 /\ hits = 5)
              => (decision.action = "rag" /\ decision.confidence = 90 /\ llm_calls = 0)
        /\ (rpc = "done" /\ top1 = 10 /\ avg5 = 5 /\ hits = 1)
              => (decision.action = "escalate" /\ decision.confidence = 90
                  /\ llm_calls = 0)

\* Scenario B decided at router_chain main
C10_Witness ==
    /\ rpc = "done"
    /\ site = "router_chain"
    /\ top1 = 10 /\ avg5 = 5 /\ hits = 1
    /\ decision.action = "escalate"
    /\ llm_calls = 0

\* the reply as a whole is a JSON document
IsJson(lines) ==
    \/ Len(lines) = 1 /\ lines[1].kind \in {"object", "no_action", "nested", "value"}
    \/ \E a \in ReplyActions : lines = indented(a)

\* some line of the reply is, on its own, a JSON object with an action
HasDecisionLine(lines) ==
    \E i \in 1..Len(lines) : lines[i].kind = "object"

\* C11: in the gray band, a reply that the call site cannot parse gives the
\* decision escalate with confidence 0.5 and a reason that names the parse
\* failure: decide_action when the reply is not JSON, call_router when no
\* line of the router's output is a JSON object with an action.
C11_ParseFailureEscalates ==
    /\ (site = "agent" /\ rpc = "done" /\ llm_calls = 1 /\ ~IsJson(reply))
          => /\ decision.action = "escalate"
             /\ decision.confidence = 50
             /\ decision.reason = "Router parse failure"
    /\ (site = "router_chain" /\ rpc = "done" /\ llm_calls = 1
        /\ returned # None /\ ~HasDecisionLine(reply))
          => /\ returned.action = "escalate"
             /\ returned.confidence = 50
             /\ returned.reason = "Could not parse router output"

\* call_router has scanned a gray-band output whose reply is an indented
\* object: no single line of it parses
C11_Witness ==
    /\ site = "router_chain"
    /\ rpc = "done"
    /\ llm_calls = 1
    /\ reply = indented("rag")
    /\ returned # None
    /\ returned.confidence = 50

\* C12: every decision returned by decide_action and by call_router has an
\* action among rag, escalate, db and api, for every signals triple and
\* every reply of the chat model.
C12_AsStated ==
    /\ (site = "agent" /\ rpc = "done")
          => /\ "action" \in DOMAIN decision
             /\ decision.action \in Actions
    /\ returned # None
          => /\ "action" \in DOMAIN returned
             /\ returned.action \in Actions

\* C21: whenever the gray-band chat-model call fails or times out, the
\* caller obtains an escalate decision with a fixed low confidence and a
\* reason; it never obtains an exception.
C21_AsStated ==
    /\ site = "agent" => rpc # "raised"
    /\ (site = "router_chain" /\ rpc = "raised" /\ returned # None)
          => /\ returned.action = "escalate"
             /\ returned.confidence = 0
             /\ "reason" \in DOMAIN returned

\* what the hard rules of call site s give for a triple: rag, escalate, or
\* defer when neither rule applies
RuleOf(s, t, a, h) ==
    IF s = "agent"
    THEN IF t >= agent_high_top1 /\ a >= agent_high_avg5 /\ h >= agent_high_hits
         THEN "rag"
         ELSE IF t < agent_low_top1 \/ a < agent_low_avg5 \/ h < agent_low_hits
              THEN "escalate"
              ELSE "defer"
    ELSE IF t >= chain_high_top1 /\ a >= chain_high_avg5 /\ h >= chain_high_hits
         THEN "rag"
         ELSE IF t < chain_low_top1 \/ a < chain_low_avg5 \/ h < chain_low_hits
              THEN "escalate"
              ELSE "defer"

OtherSite == IF site = "agent" THEN "router_chain" ELSE "agent"

\* C29: for every signals triple the two call sites never return opposite
\* hard-rule decisions: when one site has decided rag (escalate) by its hard
\* rule, the hard rules of the other site do not give escalate (rag) for the
\* same triple; the other site decides the same or defers.
C29_NeverOpposite ==
    (rpc = "done" /\ llm_calls = 0) =>
        /\ decision.action = "rag"
              => RuleOf(OtherSite, top1, avg5, hits) # "escalate"
        /\ decision.action = "escalate"
              => RuleOf(OtherSite, top1, avg5, hits) # "rag"

\* decide_action has escalated by its hard rule on a triple for which
\* router_chain main defers to the chat model
C29_Witness ==
    /\ rpc = "done"
    /\ llm_calls = 0
    /\ site = "agent"
    /\ top1 = 30 /\ avg5 = 40 /\ hits = 3
    /\ decision.action = "escalate"
    /\ RuleOf("router_chain", top1, avg5, hits) = "defer"

(* --------------- claims on the two-pass reconciliation ----------------- *)
\* the judge's reply is an object that carries this value under this key
JudgeReports(key, value) ==
    /\ "kind" \in DOMAIN judge_text
    /\ judge_text.kind = "object"
    /\ judge_text[key] = value

\* the answer pass's reply is an object that carries this value under this key
AnswerReports(key, value) ==
    /\ "kind" \in DOMAIN answer_text
    /\ answer_text.kind = "object"
    /\ answer_text[key] = value

\* the judge's reply is an object with a hallucination level of 1 or more
JudgeSeesHallucination ==
    /\ "kind" \in DOMAIN judge_text
    /\ judge_text.kind = "object"
    /\ "num" \in DOMAIN judge_text.hallucination_level
    /\ judge_text.hallucination_level.num >= 1

\* C13: whenever the judge reports is_supported=false, the final result has
\* can_answer false, whatever the answer pass reported.
C13_JudgeVeto ==
    (qpc = "done" /\ JudgeReports("is_supported", JBool(FALSE)))
        => final_result.can_answer = JBool(FALSE)

\* the judge vetoes an answer the first pass gave with can_answer true and
\* confidence 0.8, and reports no hallucination
C13_Witness ==
    /\ qpc = "done"
    /\ JudgeReports("is_supported", JBool(FALSE))
    /\ JudgeReports("hallucination_level", JNum(0))
    /\ AnswerReports("can_answer", JBool(TRUE))
    /\ AnswerReports("confidence", JNum(80))
    /\ final_result.can_answer = JBool(FALSE)

\* C14: whenever the judge overrides (is_supported=false or
\* hallucination_level >= 1), the final confidence is the smaller of the
\* answer pass's confidence and the judge's overall_confidence; Scenario E
\* (0.8 and true; false, 2, 0.2) ends with can_answer false, confidence 0.2.
C14_MinConfidence ==
    /\ (/\ qpc = "done"
        /\ JudgeReports("is_supported", JBool(FALSE)) \/ JudgeSeesHallucination
        /\ "num" \in DOMAIN judge_text.overall_confidence)
          => final_result.confidence =
                JNum(Min(answer_pass.confidence.num,
                         judge_text.overall_confidence.num))
    /\ (/\ qpc = "done"
        /\ AnswerReports("confidence", JNum(80))
        /\ AnswerReports("can_answer", JBool(TRUE))
        /\ JudgeReports("is_supported", JBool(FALSE))
        /\ JudgeReports("hallucination_level", JNum(2))
        /\ JudgeReports("overall_confidence", JNum(20)))
          => /\ final_result.can_answer = JBool(FALSE)
             /\ final_result.confidence = JNum(20)

\* Scenario E, reconciled
C14_Witness ==
    /\ qpc = "done"
    /\ AnswerReports("confidence", JNum(80))
    /\ AnswerReports("can_answer", JBool(TRUE))
    /\ JudgeReports("is_supported", JBool(FALSE))
    /\ JudgeReports("hallucination_level", JNum(2))
    /\ JudgeReports("overall_confidence", JNum(20))
    /\ final_result.confidence = JNum(20)

\* C15 as stated: the final result has can_answer true only if the answer
\* pass itself reported can_answer=true and the judge itself reported
\* is_supported=true with hallucination_level=0.
C15_AsStated ==
    (qpc = "done" /\ final_result.can_answer = JBool(TRUE))
        => /\ AnswerReports("can_answer", JBool(TRUE))
           /\ JudgeReports("is_supported", JBool(TRUE))
           /\ JudgeReports("hallucination_level", JNum(0))

\* C15: the final result has can_answer true only if the answer pass did
\* not report can_answer=false and the judge did not report
\* is_supported=false or a hallucination level of 1 or more: either pass
\* can veto, and a reply that does not parse or omits the field approves.
C15_EitherPassCanVeto ==
    (qpc = "done" /\ final_result.can_answer = JBool(TRUE))
        => /\ ~AnswerReports("can_answer", JBool(FALSE))
           /\ ~JudgeReports("is_supported", JBool(FALSE))
           /\ ~JudgeSeesHallucination

\* an answer approved by the first pass alone: the judge's reply did not parse
C15_Witness ==
    /\ qpc = "done"
    /\ final_result.can_answer = JBool(TRUE)
    /\ AnswerReports("can_answer", JBool(TRUE))
    /\ judge_text.kind = "text"

\* the answer pass reported a confidence below 0.5
SelfConfidenceLow ==
    /\ "kind" \in DOMAIN answer_text
    /\ answer_text.kind = "object"
    /\ "num" \in DOMAIN answer_text.confidence
    /\ answer_text.confidence.num < 50

\* C16: if low_retrieval_conf is true or the answer pass reported a
\* confidence below the threshold, the answer result that enters
\* reconciliation has can_answer false, confidence 0.0 and no sources, and
\* the final result does not have can_answer true.
C16_AsStated ==
    (low_retrieval_conf(reranked) \/ SelfConfidenceLow) =>
        /\ qpc \in {"parsed", "done", "judge_crashed"}
              => /\ answer_pass.can_answer = JBool(FALSE)
                 /\ answer_pass.confidence = JNum(0)
                 /\ answer_pass.sources = JList(<<>>)
        /\ qpc = "done" => final_result.can_answer # JBool(TRUE)

\* the answer pass's reply is text that is no JSON
AnswerIsPlainText ==
    /\ "kind" \in DOMAIN answer_text
    /\ answer_text.kind = "text"

\* C17: if the answer pass's reply is not JSON, the first try block does
\* not fail: the raw reply becomes the answer with confidence 0.7 and
\* can_answer true, and the sources are the chunk_ids of the context; the
\* final result carries that answer and those sources.
C17_PlainTextFallback ==
    AnswerIsPlainText =>
        /\ qpc # "answer_crashed"
        /\ qpc \in {"parsed", "done", "judge_crashed"}
              => /\ answer_pass.can_answer = JBool(TRUE)
                 /\ answer_pass.confidence = JNum(70)
                 /\ answer_pass.answer = JStr("answer_text")
                 /\ answer_pass.sources = JList(chunk_ids)
        /\ qpc = "done"
              => /\ final_result.answer = JStr("answer_text")
                 /\ final_result.sources = JList(chunk_ids)

\* a plain-text answer that the judge let through
C17_Witness ==
    /\ qpc = "done"
    /\ AnswerIsPlainText
    /\ final_result.can_answer = JBool(TRUE)
    /\ final_result.confidence = JNum(70)

\* C18: if the judge's reply is not JSON, the final result equals the
\* answer pass's result in can_answer, confidence, answer, reason and
\* sources.
C18_JudgeParseFailureKeeps ==
    (qpc = "done" /\ judge_text.kind = "text") =>
        /\ final_result.can_answer = answer_pass.can_answer
        /\ final_result.confidence = answer_pass.confidence
        /\ final_result.answer = answer_pass.answer
        /\ final_result.reason = answer_pass.reason
        /\ final_result.sources = answer_pass.sources

\* the judge's reply did not parse and the answer pass's own result, with
\* can_answer true and confidence 0.4, is the final result
C18_Witness ==
    /\ qpc = "done"
    /\ judge_text.kind = "text"
    /\ AnswerReports("can_answer", JBool(TRUE))
    /\ AnswerReports("confidence", JNum(40))
    /\ final_result.can_answer = JBool(TRUE)
    /\ final_result.confidence = JNum(40)

\* C19: for every pair of replies (text that is no JSON, JSON that is no
\* object, an object with fields of unexpected types) reconciliation
\* completes: neither try block ends main with an error.
C19_AsStated ==
    qpc \notin {"answer_crashed", "judge_crashed"}

\* the judge's reply is an object that makes the second try block override
JudgeOverrides ==
    \/ JudgeReports("is_supported", JBool(FALSE))
    \/ JudgeSeesHallucination

\* C30: when the judge overrides the answer, the final result keeps the
\* answer and the sources of the answer pass exactly, and in every final
\* result retrieval_scores is a function of the reranked list alone (first
\* score, mean of the first five, length), whatever the two replies were.
C30_OverrideFrame ==
    /\ (qpc = "done" /\ JudgeOverrides)
          => /\ final_result.answer = answer_pass.answer
             /\ final_result.sources = answer_pass.sources
    /\ qpc = "done"
          => /\ final_result.retrieval_scores.hits = Len(reranked)
             /\ final_result.retrieval_scores.top1 =
                   (IF reranked = <<>> THEN 0 ELSE reranked[1])
             /\ final_result.retrieval_scores.avg_top5 = avg_top5_of(reranked)

\* the judge has overridden an answer the first pass approved: can_answer
\* and reason changed, answer and sources did not
C30_Witness ==
    /\ qpc = "done"
    /\ JudgeSeesHallucination
    /\ AnswerReports("can_answer", JBool(TRUE))
    /\ Len(reranked) >= 1
    /\ final_result.can_answer = JBool(FALSE)
    /\ final_result.reason # answer_pass.reason
    /\ final_result.answer = answer_pass.answer
    /\ final_result.answer # JStr("")
    /\ final_result.sources = answer_pass.sources

(* ----------------------- claims on RAGTool._run ----------------------- *)
\* _run found no result to hand on: an error return, or the return after
\* the scan found no line
Unrecovered ==
    /\ tpc = "returned"
    /\ "status" \in DOMAIN tool_result

\* C20: RAGTool._run returns, for every outcome of the subprocess, an
\* object shaped as a FinalResult (it has, at the least, can_answer), and
\* where it could not recover a result that object has can_answer false
\* and a readable reason (under either key, reason or message).
C20_AsStated ==
    /\ tpc = "returned" => "can_answer" \in DOMAIN tool_result
    /\ Unrecovered
          => /\ "can_answer" \in DOMAIN tool_result
             /\ tool_result.can_answer = FALSE
             /\ \/ "reason" \in DOMAIN tool_result
                \/ "message" \in DOMAIN tool_result

(* ----------------------- claims on dedup_results ----------------------- *)
\* the (source, block_idx) identity of an item, absent fields read as the
\* defaults "" and -1
SourceBlock(item) ==
    <<IF "source" \in DOMAIN item.meta THEN item.meta.source ELSE "",
      IF "block_idx" \in DOMAIN item.meta THEN item.meta.block_idx ELSE -1>>

\* the indices of items that are the first with their (source, block_idx)
FirstOccurrences ==
    {i \in 1..Len(items) :
        \A j \in 1..(i - 1) : SourceBlock(items[j]) # SourceBlock(items[i])}

RECURSIVE IsSubsequence(_, _)
IsSubsequence(s, t) ==
    IF s = <<>> THEN TRUE
    ELSE IF t = <<>> THEN FALSE
    ELSE IF Head(s) = Head(t) THEN IsSubsequence(Tail(s), Tail(t))
    ELSE IsSubsequence(s, Tail(t))

\* C3: dedup_results returns a subsequence of its input in which no two
\* entries have the same (source, block_idx) key, every key of the input
\* has an entry, and that entry is the key's first occurrence in the input.
C3_FirstOccurrenceSubsequence ==
    dpc = "done" =>
        /\ IsSubsequence(uniq, items)
        /\ \A i, j \in 1..Len(uniq) :
              SourceBlock(uniq[i]) = SourceBlock(uniq[j]) => i = j
        /\ Len(uniq) = Cardinality(FirstOccurrences)
        /\ \A i \in FirstOccurrences : \E j \in 1..Len(uniq) : uniq[j] = items[i]
        /\ \A j \in 1..Len(uniq) : \E i \in FirstOccurrences : uniq[j] = items[i]

\* a later duplicate that differs from the kept entry was dropped, one of
\* the two having its key from the defaults
C3_Witness ==
    /\ dpc = "done"
    /\ Len(items) = 3
    /\ Len(uniq) = 2
    /\ SourceBlock(items[1]) = SourceBlock(items[3])
    /\ items[1] # items[3]
    /\ items[1].meta # items[3].meta

(* -------------------------- claims on rrf_fuse ------------------------- *)
AllHits == dense_hits \o sparse_hits

Occurrences(id) == {i \in 1..Len(AllHits) : AllHits[i].doc_id = id}

FirstPos(id) == CHOOSE i \in Occurrences(id) : \A j \in Occurrences(id) : i <= j

LastPos(id) == CHOOSE i \in Occurrences(id) : \A j \in Occurrences(id) : j <= i

\* C4: the output of rrf_fuse is ordered by fused total, non-increasing, and
\* ids with equal totals appear in the order of their first appearance in
\* the input, the dense list before the sparse list.
C4_SortedStable ==
    fpc = "done" =>
        \A i, j \in 1..Len(fused) :
            i < j =>
                /\ fused[i].total >= fused[j].total
                /\ fused[i].total = fused[j].total
                      => FirstPos(fused[i].doc_id) < FirstPos(fused[j].doc_id)

\* two ids with equal totals, one only in the dense list and first, the
\* other only in the sparse list, behind an id with a larger total
C4_Witness ==
    /\ fpc = "done"
    /\ Len(fused) = 3
    /\ fused[1].total > fused[2].total
    /\ fused[2].total = fused[3].total
    /\ FirstPos(fused[2].doc_id) <= Len(dense_hits)
    /\ FirstPos(fused[3].doc_id) > Len(dense_hits)

RECURSIVE RankSum(_, _, _)
RankSum(list, id, r) ==
    IF r > Len(list) THEN 0
    ELSE (IF list[r].doc_id = id THEN Denom(MaxFuseLen) \div (k_rrf + r) ELSE 0)
         + RankSum(list, id, r + 1)

IdsOf(list) == [i \in 1..Len(list) |-> list[i].doc_id]

\* C5: rrf_fuse returns one entry per distinct id, up to top_n, whose score
\* is the sum of 1/(k + r) over every occurrence of the id at 1-based rank r
\* in the dense or the sparse list; dense [A, B] and sparse [B, C] with
\* k = 60 give B: 1/62 + 1/61, A: 1/61, C: 1/62 in that order.
C5_RrfTotals ==
    fpc = "done" =>
        /\ Len(fused) = Min(top_n, Cardinality(Range(IdsOf(AllHits))))
        /\ \A i, j \in 1..Len(fused) : fused[i].doc_id = fused[j].doc_id => i = j
        /\ \A i \in 1..Len(fused) :
              /\ fused[i].doc_id \in Range(IdsOf(AllHits))
              /\ fused[i].total = RankSum(dense_hits, fused[i].doc_id, 1)
                                  + RankSum(sparse_hits, fused[i].doc_id, 1)
        /\ (/\ IdsOf(dense_hits) = <<"A", "B">>
            /\ IdsOf(sparse_hits) = <<"B", "C">>
            /\ top_n >= 3)
           => /\ IdsOf(fused) = <<"B", "A", "C">>
              /\ fused[1].total * 61 * 62 = Denom(MaxFuseLen) * (61 + 62)
              /\ fused[2].total * 61 = Denom(MaxFuseLen)
              /\ fused[3].total * 62 = Denom(MaxFuseLen)

\* Scenario C has run
C5_Witness ==
    /\ fpc = "done"
    /\ IdsOf(dense_hits) = <<"A", "B">>
    /\ IdsOf(sparse_hits) = <<"B", "C">>
    /\ k_rrf = 60
    /\ IdsOf(fused) = <<"B", "A", "C">>

\* C6 as stated: each returned candidate carries the metadata and text of
\* the first hit that referenced its id.
C6_AsStated ==
    fpc = "done" =>
        \A i \in 1..Len(fused) :
            /\ fused[i].meta = AllHits[FirstPos(fused[i].doc_id)].meta
            /\ fused[i].doc = AllHits[FirstPos(fused[i].doc_id)].doc

\* C6 (amended): each returned candidate carries the metadata and text of
\* the last hit that referenced its id (the latest occurrence, the sparse
\* list after the dense list); only its position among equal totals comes
\* from the first occurrence.
C6_CarriesLastOccurrence ==
    fpc = "done" =>
        \A i \in 1..Len(fused) :
            /\ fused[i].meta = AllHits[LastPos(fused[i].doc_id)].meta
            /\ fused[i].doc = AllHits[LastPos(fused[i].doc_id)].doc

\* an id occurred in the dense list and again in the sparse list with
\* another metadata and text, and was returned
C6_Witness ==
    /\ fpc = "done"
    /\ \E i \in 1..Len(fused) :
          LET id == fused[i].doc_id IN
          /\ FirstPos(id) <= Len(dense_hits)
          /\ LastPos(id) > Len(dense_hits)
          /\ AllHits[FirstPos(id)].meta # AllHits[LastPos(id)].meta
          /\ AllHits[FirstPos(id)].doc # AllHits[LastPos(id)].doc
          /\ fused[i].doc = AllHits[LastPos(id)].doc

(* ------------------- claims on the context assembler ------------------- *)
RECURSIVE SumTokens(_)
SumTokens(chunks) ==
    IF chunks = <<>> THEN 0
    ELSE token_len(Head(chunks).text) + SumTokens(Tail(chunks))

InCollect == pc \in {"for_hit", "for_nb", "returned"}

\* C1: in every run of collect_with_neighbors the token counts of the
\* emitted chunks sum to at most max_tokens, and a truncated chunk is the
\* last element of the output: once one is emitted the function has returned.
C1_BudgetAndHardStop ==
    InCollect =>
        /\ SumTokens(collected) <= max_tokens
        /\ \A i \in 1..Len(origin) :
               origin[i].truncated => (i = Len(origin) /\ pc = "returned")

\* a full chunk followed by a truncated one that uses up the budget
C1_Witness ==
    /\ pc = "returned"
    /\ Len(collected) >= 2
    /\ origin[Len(origin)].truncated
    /\ SumTokens(collected) = max_tokens

Window(h) == (h.block_idx - radius)..(h.block_idx + radius)

\* C2: every chunk emitted by collect_with_neighbors lies in the window of
\* the hit that produced it and has that hit's section_path.
C2_SameSectionAsHit ==
    InCollect =>
        \A i \in 1..Len(collected) :
            LET h == top_hits[origin[i].hit]
                id == collected[i].chunk_id
            IN /\ id[1] = h.source
               /\ id[2] \in Window(h)
               /\ chunk_map[id].section_path = h.section_path

\* a chunk was emitted while a non-empty neighbour of another section, in
\* the window of some hit, was left out although the budget had room for it
C2_Witness ==
    /\ pc = "returned"
    /\ collected # <<>>
    /\ \E j \in 1..Len(top_hits) : \E n \in Window(top_hits[j]) :
          LET key == <<top_hits[j].source, n>> IN
          /\ key \in DOMAIN chunk_map
          /\ chunk_map[key].section_path # top_hits[j].section_path
          /\ chunk_map[key].text # EmptyText
          /\ SumTokens(collected) + token_len(chunk_map[key].text) <= max_tokens
          /\ \A i \in 1..Len(collected) : collected[i].chunk_id # key

\* C7 as stated: six hits and max_tokens below the token length of the
\* first hit's text give exactly one chunk, truncated, whatever the radius
\* and the chunk map.
C7_AsStated ==
    (/\ pc = "returned"
     /\ Len(top_hits) = 6
     /\ max_tokens < token_len(top_hits[1].doc))
    => (Len(collected) = 1 /\ origin[1].truncated)

\* the first block the assembler can emit for the first hit
FirstEmittable(h) ==
    {n \in Window(h) :
        /\ <<h.source, n>> \in DOMAIN chunk_map
        /\ chunk_map[<<h.source, n>>].section_path = h.section_path
        /\ chunk_map[<<h.source, n>>].text # EmptyText
        /\ \A m \in Window(h) :
              (/\ m < n
               /\ <<h.source, m>> \in DOMAIN chunk_map
               /\ chunk_map[<<h.source, m>>].section_path = h.section_path)
              => chunk_map[<<h.source, m>>].text = EmptyText}

\* C7 (amended): when 1 <= max_tokens and the first block of the first
\* hit's window that is in the chunk map with the hit's section_path and a
\* non-empty text (with radius 0: the first hit's own chunk) has more than
\* max_tokens tokens, the output is exactly one chunk, that block, truncated
\* to max_tokens tokens.
C7_OneTruncatedChunk ==
    (/\ pc = "returned"
     /\ Len(top_hits) >= 1
     /\ max_tokens >= 1)
    => \A n \in FirstEmittable(top_hits[1]) :
          LET key == <<top_hits[1].source, n>> IN
          token_len(chunk_map[key].text) > max_tokens
          => /\ Len(collected) = 1
             /\ collected[1].chunk_id = key
             /\ origin[1].truncated
             /\ token_len(collected[1].text) = max_tokens
             /\ collected[1].text # chunk_map[key].text

C7_Witness ==
    /\ pc = "returned"
    /\ Len(top_hits) = 6
    /\ radius = 0
    /\ max_tokens = 2
    /\ <<top_hits[1].source, top_hits[1].block_idx>> \in DOMAIN chunk_map
    /\ chunk_map[<<top_hits[1].source, top_hits[1].block_idx>>].text = top_hits[1].doc
    /\ token_len(top_hits[1].doc) > max_tokens
    /\ Len(collected) = 1
    /\ origin[1].truncated

HitKey(h) == <<h.source, h.block_idx>>

\* C8 as stated: with at least one reranked hit the context handed to the
\* answer pass is never empty.
C8_AsStated ==
    (pc = "context" /\ Len(top_hits) >= 1) => collected # <<>>

\* C8 (amended): with at least one reranked hit and max_context_tokens >= 1
\* the context handed to the answer pass is non-empty and within the
\* budget; when neighbour expansion yielded nothing (total > 0 records that
\* the fallback emitted), it holds the reranked hits' own texts in rerank
\* order, each whole except the last, which is cut at the budget, and a hit
\* is left out only when the budget is used up.
C8_FallbackContext ==
    (pc = "context" /\ Len(top_hits) >= 1 /\ max_tokens >= 1)
    => /\ collected # <<>>
       /\ SumTokens(collected) <= max_tokens
       /\ (total_tokens = 0 /\ seen = {} /\ total > 0) =>
             /\ Len(collected) <= Len(top_hits)
             /\ \A i \in 1..Len(collected) :
                   /\ collected[i].chunk_id = HitKey(top_hits[i])
                   /\ enc_encode(collected[i].text)
                        = Take(enc_encode(top_hits[i].doc),
                               token_len(collected[i].text))
                   /\ i < Len(collected) => collected[i].text = top_hits[i].doc
             /\ Len(collected) < Len(top_hits)
                   => SumTokens(collected) = max_tokens

\* the fallback ran over two hits and cut the second at the budget
C8_Witness ==
    /\ pc = "context"
    /\ total > 0
    /\ total_tokens = 0
    /\ Len(collected) = 2
    /\ collected[2].text # top_hits[2].doc
    /\ SumTokens(collected) = max_tokens

(* ------------------- claims on the retrieval scores -------------------- *)
\* the sum of the k highest of a list of scores
RECURSIVE sum_highest(_, _)
sum_highest(scores, k) ==
    IF k = 0 \/ scores = <<>> THEN 0
    ELSE LET m == CHOOSE i \in 1..Len(scores) :
                      \A j \in 1..Len(scores) : scores[j] <= scores[i]
         IN  scores[m]
             + sum_highest([j \in 1..(Len(scores) - 1) |->
                                IF j < m THEN scores[j] ELSE scores[j + 1]],
                           k - 1)

C22_AsStated ==
    (ppc = "signals" /\ pre_error # None) => retrieval_signals # empty_signals

(* ----------------------- claims on the chat flow ----------------------- *)
\* the RAG result is an object that reports can_answer true and a
\* confidence of 0.5 or more
RagApproves ==
    /\ rag_result.kind = "object"
    /\ rag_result.can_answer = JBool(TRUE)
    /\ "num" \in DOMAIN rag_result.confidence
    /\ rag_result.confidence.num >= 50

\* the chat flow has finished with the RAG result
RagHandled == cpc \in {"responded", "crashed"} /\ chat_action = "rag"

\* C25: after the RAG run the answer text is shown only if the RAG result
\* has can_answer=true and confidence >= 0.5; for every other result object
\* (can_answer false or missing, or confidence below 0.5) the escalate tool
\* is invoked and the response is recorded with action=escalate.
C25_AsStated ==
    /\ (RagHandled /\ response_content \in {"answer", "No answer provided"})
          => RagApproves
    /\ (RagHandled /\ rag_result.kind = "object" /\ ~RagApproves)
          => /\ escalate_calls = 1
             /\ cpc = "responded"
             /\ response_metadata.action = "escalate"

(* ---------------------- claims on parse_signals ------------------------ *)
\* C23: for every input parse_signals returns a mapping, and the input is
\* never fatal to main.
C23_AsStated ==
    /\ spc \in {"returned", "routing", "crashed"} => parsed.kind = "mapping"
    /\ spc # "crashed"

(* ------------------- claims on the identity of chunks ------------------ *)
\* C24: over a corpus produced by the chunker, two hits that carry the same
\* id refer to the same text block of the same section, and two chunks
\* with the same (source, block_idx) key, of which the chunk map holds one,
\* are the same text block of the same section.
C24_AsStated ==
    /\ \A i, j \in 1..Len(sparse_out) :
          sparse_out[i].doc_id = sparse_out[j].doc_id
             => /\ sparse_out[i].doc = sparse_out[j].doc
                /\ sparse_out[i].meta.section_path = sparse_out[j].meta.section_path
    /\ chpc \in {"mapped", "searched"}
          => \A i, j \in 1..Len(docs) :
                chunk_key(docs[i]) = chunk_key(docs[j])
                   => /\ docs[i].text = docs[j].text
                      /\ docs[i].section_path = docs[j].section_path

(* ---------------------- claims on MemoryManager ------------------------ *)
\* the role under which full_history records a message of this type
RoleOf(type) == IF type = "human" THEN "user" ELSE "assistant"

\* C28: in every manager, restored ones included, windowed_messages holds
\* exactly the last min(2k, n) entries of the n-entry full_history, in the
\* same order with the same role and content, and so at most 2k messages.
C28_AsStated ==
    \A m \in DOMAIN managers :
        managers[m].live =>
            LET w == managers[m].windowed_messages
                h == lists[managers[m].full_history]
                n == Len(h)
                kept == Min(2 * managers[m].window_size, n)
            IN  /\ Len(w) = kept
                /\ \A i \in 1..Len(w) :
                      /\ n - kept + i \in 1..n
                      /\ RoleOf(w[i].type) = h[n - kept + i].role
                      /\ w[i].content = h[n - kept + i].content

(* ------------------- claims on concurrent queries ---------------------- *)
\* the final result of a query processed alone
Alone(topic) == final_of(topic, reranked_of(search(topic, store)))

\* C27: under every interleaving of the stages of two queries, each query
\* that has finished has printed the final result it produces when it is
\* processed alone, and a query that has not finished has printed nothing.
C27_SameAsAlone ==
    \A p \in DOMAIN cq_pos :
        /\ cq_pos[p] = "done" => outputs[p] = Alone(queries[p])
        /\ cq_pos[p] # "done" => outputs[p] = None

\* query 1 has finished with hits while query 2, on another topic with
\* other hits, is between its stages
C27_Witness ==
    /\ cq_pos # <<>>
    /\ cq_pos[1] = "done"
    /\ cq_pos[2] = "reranked"
    /\ queries[1] # queries[2]
    /\ outputs[1].retrieval_scores.hits >= 1
    /\ mem[2].rr # <<>>
    /\ mem[2].rr # mem[1].rr
====
